---- MODULE Spec2Model ----
(***************************************************************************)
(* Projective Set: the shared game-state engine (deck, validation, state) *)
(* and the server's GameManager / LobbyManager / socket handlers for one   *)
(* room.  The specifications share the variables:                          *)
(*   Spec       - the GameManager methods called directly (as the tests    *)
(*                do), plus the timer loop;                                *)
(*   SpecEvents - the socket event handlers, each a whole handler;         *)
(*   SpecPure   - claimSet or toggleCardSelection of the engine applied    *)
(*                once to a drawn game;                                    *)
(*   SpecEngine - the engine's timer and end-check functions and claimSet  *)
(*                applied in any order to a drawn game;                    *)
(*   SpecLoop   - the timer loops of a room whose host may start a game    *)
(*                again;                                                   *)
(*   SpecLobby  - the LobbyManager methods called directly on a room       *)
(*                before any game;                                         *)
(*   SpecSettings - the settings, lock, ready and start methods of the     *)
(*                LobbyManager on a small room, with startGame;            *)
(*   SpecChat   - the chat messages added to one room;                     *)
(*   SpecValid  - isValidSet, hasValidSet and findAllSets applied to       *)
(*                drawn lists of card values;                              *)
(*   SpecEndgame - the claims that end a finite-deck game, from a game     *)
(*                played down to its last cards;                           *)
(*   SpecClick  - the game events and the timer loop of a click-mode room  *)
(*                whose game runs on a game timer;                         *)
(*   SpecImmediate - the clicks of two players who select at the same      *)
(*                time in an immediate-mode room.                          *)
(***************************************************************************)
EXTENDS Integers, Sequences, FiniteSets, TLC

\* ------------------------------------------------------------------------
\* Program constants
\* ------------------------------------------------------------------------
DECK_SIZE == 63
ACTIVE_CARD_COUNT == 7
MIN_SET_SIZE == 3
BITS_PER_CARD == 6
\* config.tickRateMs, the period of the game loop
tickRateMs == 100
\* config.maxPlayersPerLobby
maxPlayersPerLobby == 8
\* PLAYER_COLORS.length
PLAYER_COLORS_length == 8
\* the chat messages a lobby keeps (LobbyManager.addChatMessage)
chatMessagesLimit == 100

\* ------------------------------------------------------------------------
\* Bounds of the model
\* ------------------------------------------------------------------------
\* successful claims explored per game
MaxClaims == 1
\* a player clicks only the first ToggleWindow cards of the table
ToggleWindow == 3
\* direct claimSet calls name cards among the first ClaimWindow table cards
ClaimWindow == 4
\* the configured turn timer, in periods of the game loop
TurnTicks == 2
\* the configured game timer, in periods of the game loop
GameTicks == 3
\* games started on the room while the loop of its previous game runs
MaxRestarts == 1
\* player ids that ever enter the lobby
MaxIds == 9
\* player ids that ever enter the lobby whose settings are changed
MaxSettingsIds == 2
\* chat messages sent to the room
MaxMessages == 103
\* the longest list of short value lists passed to the validator
MaxListLen == 4
\* the number of cards in the long list passed to the validator
MaxCards == 31
\* the most cards left in the deck when the end of a game is explored
EndgameDeck == 5

\* `null` of a `number | null` timer
Null == -1

\* the room's players, and an id that is in no game
Players == <<"p1", "p2">>
Unknown == "px"
Callers == {"p1", "p2", Unknown}
\* a card id that was never dealt
FakeId == 0

VARIABLES
    state,          \* GameInstance.state : GameState
    pendingSet,     \* GameInstance.pendingSet : <<>> (null) or <<PendingSet>>
    loopInterval,   \* GameInstance.loopInterval is set
    lobby,          \* the room's LobbyState: <<>> once deleted, else <<LobbyState>>
    sockets,        \* socket.data.lobbyCode is set, per player
    result,         \* what the last call returned
    nextId,         \* ids handed out so far by generateCardId
    claims,         \* successful claims so far
    elapsed,        \* SpecEngine: the time passed to updateTimers so far
    chatSent,       \* SpecChat: the messages passed to addChatMessage so far
    endedSent,      \* the game:ended messages broadcast to the room since
                    \* createGame made the room's game instance
    orphans         \* the game instances that createGame has replaced while
                    \* their loop was running, oldest first: the state, and
                    \* whether the interval is still scheduled

vars ==
    <<state, pendingSet, loopInterval, lobby, sockets, result, nextId, claims,
      elapsed, chatSent, endedSent, orphans>>

\* ------------------------------------------------------------------------
\* Sequence helpers (Array.prototype.*)
\* ------------------------------------------------------------------------
Range(s) == {s[i] : i \in 1..Len(s)}

includes(s, x) == \E i \in 1..Len(s) : s[i] = x

\* Array.findIndex, 1-based; 0 stands for -1
findIndex(s, P(_)) ==
    IF \E i \in 1..Len(s) : P(s[i])
    THEN CHOOSE i \in 1..Len(s) : P(s[i]) /\ \A j \in 1..(i - 1) : ~P(s[j])
    ELSE 0

filter(s, P(_)) == SelectSeq(s, P)

Reverse(s) == [i \in 1..Len(s) |-> s[Len(s) + 1 - i]]

RECURSIVE SumSeq(_)
SumSeq(s) == IF s = <<>> THEN 0 ELSE Head(s) + SumSeq(Tail(s))

\* ------------------------------------------------------------------------
\* validation.ts
\* ------------------------------------------------------------------------
RECURSIVE XorBits(_, _, _)
XorBits(a, b, n) ==
    IF n = 0 THEN 0
    ELSE (((a % 2) + (b % 2)) % 2) + (2 * XorBits(a \div 2, b \div 2, n - 1))

\* a ^ b on card values
Xor(a, b) == XorBits(a, b, BITS_PER_CARD)

RECURSIVE XorAll(_)
XorAll(cards) == IF cards = <<>> THEN 0 ELSE Xor(Head(cards), XorAll(Tail(cards)))

\* isValidSet without the MIN_SET_SIZE check
isValidSet_noMinSize(cards) == XorAll(cards) = 0

\* isValidSet that looks at the first MIN_SET_SIZE cards only
isValidSet_firstCards(cards) ==
    IF Len(cards) < MIN_SET_SIZE THEN FALSE
    ELSE XorAll(SubSeq(cards, 1, MIN_SET_SIZE)) = 0

isValidSet(cards) ==
    IF Len(cards) < MIN_SET_SIZE THEN FALSE
    ELSE XorAll(cards) = 0

RECURSIVE XorAt(_, _)
\* xorResult of the cards whose index is in mask
XorAt(cards, mask) ==
    IF mask = {} THEN 0
    ELSE LET i == CHOOSE j \in mask : TRUE
         IN Xor(cards[i], XorAt(cards, mask \ {i}))

\* 1 << n on 32-bit integers: the shift count is taken modulo 32 and bit 31
\* is the sign
shl1(n) == LET k == n % 32 IN IF k = 31 THEN (0 - 2147483647) - 1 ELSE 2 ^ k

RECURSIVE countBits(_)
countBits(n) == IF n = 0 THEN 0 ELSE (n % 2) + countBits(n \div 2)

\* mask & (1 << i) is not 0, for a mask of 0 .. 2^31 - 1
maskHas(mask, i) == LET k == i % 32 IN k < 31 /\ (mask \div (2 ^ k)) % 2 = 1

\* the indices i < n, counted from 0, that mask selects, ascending
maskIndices(mask, n) ==
    SelectSeq([i \in 1..n |-> i - 1], LAMBDA i : maskHas(mask, i))

\* the cards at these indices
subsetOf(cards, indices) ==
    [j \in 1..Len(indices) |-> cards[indices[j] + 1]]

\* the masks of the loop, for (mask = 7; mask < (1 << n); mask++), ascending
masks(n) == IF shl1(n) <= 7 THEN <<>> ELSE [m \in 1..(shl1(n) - 7) |-> m + 6]

\* findAllSets(cards): the index lists of the valid subsets, by ascending mask
findAllSets(cards) ==
    LET n == Len(cards)
        valid == SelectSeq(masks(n), LAMBDA mask :
                    /\ countBits(mask) >= MIN_SET_SIZE
                    /\ isValidSet(subsetOf(cards, maskIndices(mask, n))))
    IN [j \in 1..Len(valid) |-> maskIndices(valid[j], n)]

\* hasValidSet(cards). While 1 << n does not overflow, the masks below 1 << n
\* are the subsets of the n indices, and those below 7 have fewer than 3 bits
hasValidSet(cards) ==
    LET n == Len(cards)
    IN IF n < MIN_SET_SIZE THEN FALSE
       ELSE IF n < 31
       THEN \E mask \in SUBSET (1..n) :
                /\ Cardinality(mask) >= MIN_SET_SIZE
                /\ XorAt(cards, mask) = 0
       ELSE \E mask \in Range(masks(n)) :
                /\ countBits(mask) >= MIN_SET_SIZE
                /\ XorAll(subsetOf(cards, maskIndices(mask, n))) = 0

\* ------------------------------------------------------------------------
\* deck.ts
\* ------------------------------------------------------------------------
\* A CardInstance {id, value} is one integer: the value in its low
\* BITS_PER_CARD bits, above them the serial number generateCardId gave it.
\* The integer is also the card's id.
IdBase == 2 ^ BITS_PER_CARD

\* a card whose id does not depend on when it was made
Card_sameId(serial, value) == value

Card(serial, value) == (IdBase * serial) + value

cardValue(c) == c % IdBase

values(cards) == [i \in 1..Len(cards) |-> cardValue(cards[i])]

\* createDeck: one card per value 1..DECK_SIZE in ascending order; these
\* first DECK_SIZE ids have serial 0
createDeck == [value \in 1..DECK_SIZE |-> Card(0, value)]

\* the outcomes of shuffle(array) that are explored: the array as it is, and
\* the array reversed
ShuffleKinds == {"keep", "reverse"}

shuffle(array, kind) == IF kind = "reverse" THEN Reverse(array) ELSE array

\* dealCards that leaves the dealt cards in the deck
dealCards_noPop(deck, count) ==
    LET n == IF count < 0 THEN 0
             ELSE IF count < Len(deck) THEN count ELSE Len(deck)
    IN [dealt |-> [i \in 1..n |-> deck[Len(deck) + 1 - i]],
        deck  |-> deck]

\* dealCards that stops one card early
dealCards_oneLess(deck, count) ==
    LET n == IF count - 1 < 0 THEN 0
             ELSE IF count - 1 < Len(deck) THEN count - 1 ELSE Len(deck)
    IN [dealt |-> [i \in 1..n |-> deck[Len(deck) + 1 - i]],
        deck  |-> SubSeq(deck, 1, Len(deck) - n)]

\* dealCards pops from the end of the deck `count` times or until it is
\* empty; gives the dealt cards (in pop order) and the deck that is left
dealCards(deck, count) ==
    LET n == IF count < 0 THEN 0
             ELSE IF count < Len(deck) THEN count ELSE Len(deck)
    IN [dealt |-> [i \in 1..n |-> deck[Len(deck) + 1 - i]],
        deck  |-> SubSeq(deck, 1, Len(deck) - n)]

\* returnCardsToDeck that pushes nothing
returnCardsToDeck_dropCards(deck, cards, firstId, kind) == shuffle(deck, kind)

\* returnCardsToDeck: the cards get new ids (serials firstId, firstId + 1,
\* ...), are pushed onto the deck, and the deck is shuffled
returnCardsToDeck(deck, cards, firstId, kind) ==
    LET cardsWithNewIds == [i \in 1..Len(cards) |->
                               Card(firstId + i - 1, cardValue(cards[i]))]
    IN shuffle(deck \o cardsWithNewIds, kind)

\* ------------------------------------------------------------------------
\* state.ts
\* ------------------------------------------------------------------------
playerIndex(st, playerId) == findIndex(st.players, LAMBDA p : p.id = playerId)

\* createMultiplayerGame(players, settings), given the shuffled deck
createMultiplayerGame(lobbyPlayers, settings, shuffled) ==
    LET d == dealCards(shuffled, ACTIVE_CARD_COUNT)
    IN [phase |-> "playing",
        deck |-> d.deck,
        activeCards |-> d.dealt,
        players |-> [i \in 1..Len(lobbyPlayers) |->
                        [id |-> lobbyPlayers[i].id,
                         claimedCards |-> <<>>,
                         selectedCardIds |-> <<>>,
                         score |-> 0]],
        settings |-> settings,
        turnTimeRemainingMs |-> settings.turnTimer,
        gameTimeRemainingMs |-> settings.gameTimer,
        endReason |-> "null"]

\* toggleCardSelection without the check that the card is on the table
toggleCardSelection_anyCard(st, playerId, cardId) ==
    LET idx == playerIndex(st, playerId)
    IN IF idx = 0 THEN st
       ELSE LET player == st.players[idx]
                isSelected == includes(player.selectedCardIds, cardId)
                newSelection ==
                    IF isSelected
                    THEN filter(player.selectedCardIds, LAMBDA id : id # cardId)
                    ELSE Append(player.selectedCardIds, cardId)
            IN [st EXCEPT !.players[idx].selectedCardIds = newSelection]

\* toggleCardSelection that puts a newly selected card first
toggleCardSelection_prepends(st, playerId, cardId) ==
    LET idx == playerIndex(st, playerId)
    IN IF idx = 0 THEN st
       ELSE IF ~includes(st.activeCards, cardId) THEN st
       ELSE LET player == st.players[idx]
                isSelected == includes(player.selectedCardIds, cardId)
                newSelection ==
                    IF isSelected
                    THEN filter(player.selectedCardIds, LAMBDA id : id # cardId)
                    ELSE <<cardId>> \o player.selectedCardIds
            IN [st EXCEPT !.players[idx].selectedCardIds = newSelection]

\* toggleCardSelection that adds the card whether it is selected or not
toggleCardSelection_addsAgain(st, playerId, cardId) ==
    LET idx == playerIndex(st, playerId)
    IN IF idx = 0 THEN st
       ELSE IF ~includes(st.activeCards, cardId) THEN st
       ELSE [st EXCEPT !.players[idx].selectedCardIds = Append(@, cardId)]

toggleCardSelection(st, playerId, cardId) ==
    LET idx == playerIndex(st, playerId)
    IN IF idx = 0 THEN st
       ELSE IF ~includes(st.activeCards, cardId) THEN st
       ELSE LET player == st.players[idx]
                isSelected == includes(player.selectedCardIds, cardId)
                newSelection ==
                    IF isSelected
                    THEN filter(player.selectedCardIds, LAMBDA id : id # cardId)
                    ELSE Append(player.selectedCardIds, cardId)
            IN [st EXCEPT !.players[idx].selectedCardIds = newSelection]

getSelectedCardValues(st, playerId) ==
    LET idx == playerIndex(st, playerId)
    IN IF idx = 0 THEN <<>>
       ELSE values(filter(st.players[idx].selectedCardIds,
                          LAMBDA id : includes(st.activeCards, id)))

isPlayerSelectionValid(st, playerId) ==
    isValidSet(getSelectedCardValues(st, playerId))

\* the table after a claim with the claimed cards left on it
remainingCards_keepAll(activeCards, cardIds) == activeCards

\* the table cards that are left after a claim of cardIds
remainingCards(activeCards, cardIds) ==
    filter(activeCards, LAMBDA c : ~includes(cardIds, c))

\* claimedPlayers that leaves the other players' selections as they were
claimedPlayers_keepOthers(st, idx, cardIds, claimedCards, pointsAwarded) ==
    [i \in 1..Len(st.players) |->
        IF i = idx
        THEN [st.players[i] EXCEPT
                !.claimedCards = @ \o claimedCards,
                !.selectedCardIds = <<>>,
                !.score = @ + pointsAwarded]
        ELSE st.players[i]]

\* claimedPlayers that scores a point per card whatever was awarded
claimedPlayers_scoreByCards(st, idx, cardIds, claimedCards, pointsAwarded) ==
    [i \in 1..Len(st.players) |->
        IF i = idx
        THEN [st.players[i] EXCEPT
                !.claimedCards = @ \o claimedCards,
                !.selectedCardIds = <<>>,
                !.score = @ + Len(claimedCards)]
        ELSE [st.players[i] EXCEPT
                !.selectedCardIds =
                    filter(@, LAMBDA id : ~includes(cardIds, id))]]

\* the players after a claim of cardIds by the player at idx: the claimant
\* gets the cards and the points and loses the whole selection, the others
\* lose the claimed ids from their selections
claimedPlayers(st, idx, cardIds, claimedCards, pointsAwarded) ==
    [i \in 1..Len(st.players) |->
        IF i = idx
        THEN [st.players[i] EXCEPT
                !.claimedCards = @ \o claimedCards,
                !.selectedCardIds = <<>>,
                !.score = @ + pointsAwarded]
        ELSE [st.players[i] EXCEPT
                !.selectedCardIds =
                    filter(@, LAMBDA id : ~includes(cardIds, id))]]

\* a turn timer that a claim leaves running
resetTurnTimer_keeps(st) == st.turnTimeRemainingMs

\* state.settings.turnTimer?.durationMs ?? null
resetTurnTimer(st) == st.settings.turnTimer

\* claimSet(state, playerId, cardIds); firstId and kind are what
\* generateCardId and shuffle give inside returnCardsToDeck
claimSet(st, playerId, cardIds, firstId, kind) ==
    LET idx == playerIndex(st, playerId)
        claimedCards == filter(cardIds, LAMBDA id : includes(st.activeCards, id))
    IN IF idx = 0 THEN [state |-> st, pointsAwarded |-> 0]
       ELSE IF Len(claimedCards) # Len(cardIds)
       THEN [state |-> st, pointsAwarded |-> 0]
       ELSE IF ~isValidSet(values(claimedCards))
       THEN [state |-> st, pointsAwarded |-> 0]
       ELSE
        LET scoringMode == IF st.settings.scoringMode = "undefined"
                           THEN "cards" ELSE st.settings.scoringMode
            pointsAwarded == IF scoringMode = "cards"
                             THEN Len(claimedCards) ELSE 1
            remaining == remainingCards(st.activeCards, cardIds)
            returned == IF st.settings.infiniteDeck
                        THEN returnCardsToDeck(st.deck, claimedCards, firstId, kind)
                        ELSE st.deck
            d == dealCards(returned, ACTIVE_CARD_COUNT - Len(remaining))
        IN [state |-> [st EXCEPT
                        !.deck = d.deck,
                        !.activeCards = remaining \o d.dealt,
                        !.players = claimedPlayers(st, idx, cardIds,
                                                   claimedCards, pointsAwarded),
                        !.turnTimeRemainingMs = resetTurnTimer(st)],
            pointsAwarded |-> pointsAwarded]

\* clearSelection that also puts the game back into play
clearSelection_resumes(st, playerId) ==
    LET idx == playerIndex(st, playerId)
    IN IF idx = 0 THEN st
       ELSE [st EXCEPT !.players[idx].selectedCardIds = <<>>,
                       !.phase = "playing"]

clearSelection(st, playerId) ==
    LET idx == playerIndex(st, playerId)
    IN IF idx = 0 THEN st
       ELSE [st EXCEPT !.players[idx].selectedCardIds = <<>>]

\* checkGameEnd without the infiniteDeck check
checkGameEnd_anyMode(st) ==
    IF st.gameTimeRemainingMs # Null /\ st.gameTimeRemainingMs <= 0
    THEN "timer_expired"
    ELSE IF st.turnTimeRemainingMs # Null /\ st.turnTimeRemainingMs <= 0
    THEN "timer_expired"
    ELSE IF Len(st.deck) = 0 /\ ~hasValidSet(values(st.activeCards))
    THEN "deck_empty"
    ELSE "null"

\* checkGameEnd that looks at the timers only
checkGameEnd_timersOnly(st) ==
    IF st.gameTimeRemainingMs # Null /\ st.gameTimeRemainingMs <= 0
    THEN "timer_expired"
    ELSE IF st.turnTimeRemainingMs # Null /\ st.turnTimeRemainingMs <= 0
    THEN "timer_expired"
    ELSE "null"

checkGameEnd(st) ==
    IF st.gameTimeRemainingMs # Null /\ st.gameTimeRemainingMs <= 0
    THEN "timer_expired"
    ELSE IF st.turnTimeRemainingMs # Null /\ st.turnTimeRemainingMs <= 0
    THEN "timer_expired"
    ELSE IF Len(st.deck) = 0 /\ ~st.settings.infiniteDeck
            /\ ~hasValidSet(values(st.activeCards))
    THEN "deck_empty"
    ELSE "null"

endGame(st, reason) == [st EXCEPT !.phase = "ended", !.endReason = reason]

Max(a, b) == IF a > b THEN a ELSE b

\* updateTimers without the floor at 0
updateTimers_noFloor(st, elapsedMs) ==
    [st EXCEPT
        !.turnTimeRemainingMs = IF @ # Null THEN @ - elapsedMs ELSE @,
        !.gameTimeRemainingMs = IF @ # Null THEN @ - elapsedMs ELSE @]

updateTimers(st, elapsedMs) ==
    [st EXCEPT
        !.turnTimeRemainingMs =
            IF @ # Null THEN Max(0, @ - elapsedMs) ELSE @,
        !.gameTimeRemainingMs =
            IF @ # Null THEN Max(0, @ - elapsedMs) ELSE @]

\* ------------------------------------------------------------------------
\* The room at game start
\* ------------------------------------------------------------------------
Settings(infiniteDeck, scoringMode, setFoundBehavior, turnTimer, gameTimer) ==
    [infiniteDeck |-> infiniteDeck, scoringMode |-> scoringMode,
     setFoundBehavior |-> setFoundBehavior,
     turnTimer |-> turnTimer, gameTimer |-> gameTimer]

\* the lobby settings the game is started with
SettingsChoices ==
    { Settings(FALSE, "cards", "click", TurnTicks * tickRateMs, Null),
      Settings(TRUE, "sets", "immediate", Null, Null) }

\* the values createShuffledDeck's deck deals first, in dealing order; the
\* other cards follow by ascending value
FirstDealt == <<1, 2, 3, 4, 5, 8, 12, 10>>

DealOrder ==
    FirstDealt \o filter([v \in 1..DECK_SIZE |-> v],
                         LAMBDA v : ~includes(FirstDealt, v))

\* createShuffledDeck: createDeck's cards, the next card to deal last
createShuffledDeck ==
    Reverse([i \in 1..DECK_SIZE |-> createDeck[DealOrder[i]]])

LobbyPlayer(id, n) == [id |-> id, playerNumber |-> n, color |-> (n - 1) % 8]

\* the last call and what it returned: the method, the card ids a claim was
\* given (on success they are the claimedCardIds returned), the error code,
\* the points, the reason a checkGameEnd call returned, for a loop callback
\* the loop that made the call (0: the loop of the room's game instance;
\* i: the loop of the i-th replaced instance), and what createLobby,
\* joinLobby and leaveLobby return: the player (<<>> when none), whether
\* the lobby was deleted, and the new host; gameEnded is the flag a claim
\* returns, and playerId the player that a game:setPending broadcast names
NoResult ==
    [op |-> "createGame", cardIds |-> <<>>, error |-> "none",
     pointsAwarded |-> 0, endReason |-> "null", loop |-> 0,
     player |-> <<>>, lobbyDeleted |-> FALSE, newHostId |-> "undefined",
     value |-> <<>>, gameEnded |-> FALSE, playerId |-> "undefined"]

Ok(op) == [NoResult EXCEPT !.op = op]

Err(op, code) == [Ok(op) EXCEPT !.error = code]

\* startGame(io, lobbyCode) on a lobby of the two players: createGame, and
\* startGameLoop when a timer is configured
Init ==
    \E settings \in SettingsChoices :
        /\ lobby = <<[hostId |-> Players[1],
                      players |-> [i \in 1..Len(Players) |->
                                      LobbyPlayer(Players[i], i)]]>>
        /\ sockets = [p \in Range(Players) |-> TRUE]
        /\ state = createMultiplayerGame(lobby[1].players, settings,
                                         createShuffledDeck)
        /\ pendingSet = <<>>
        /\ loopInterval = (settings.turnTimer # Null \/ settings.gameTimer # Null)
        /\ result = NoResult
        /\ nextId = 1
        /\ claims = 0
        /\ elapsed = 0
        /\ chatSent = 0
        /\ endedSent = 0
        /\ orphans = <<>>

\* ------------------------------------------------------------------------
\* Inputs
\* ------------------------------------------------------------------------
selectionOf(st, playerId) ==
    LET idx == playerIndex(st, playerId)
    IN IF idx = 0 THEN <<>> ELSE st.players[idx].selectedCardIds

\* players that have cards selected
Selecting(st) ==
    Cardinality({i \in 1..Len(st.players) : st.players[i].selectedCardIds # <<>>})

\* position of a card on the table
tableIndex(st, cardId) == findIndex(st.activeCards, LAMBDA c : c = cardId)

\* pairs of a selection that are not in table order
Inversions(st, sel) ==
    Cardinality({pr \in (1..Len(sel)) \X (1..Len(sel)) :
                    /\ pr[1] < pr[2]
                    /\ tableIndex(st, sel[pr[1]]) > tableIndex(st, sel[pr[2]])})

\* the card ids a player can click: the first cards of the table, and an id
\* that is not on the table
ToggleInputs(st) ==
    {st.activeCards[i] : i \in 1..Len(st.activeCards) \cap 1..ToggleWindow}
        \cup {FakeId}

\* the clicks that are explored: a player starts and extends a selection only
\* while no other player has cards selected, and adds cards in table order;
\* a click that selects nothing new is always explored
ToggleInBounds(st, playerId, cardId) ==
    \E after \in {toggleCardSelection(st, playerId, cardId)} :
       \/ Len(selectionOf(after, playerId)) <= Len(selectionOf(st, playerId))
       \/ /\ \A q \in Range(Players) \ {playerId} : selectionOf(after, q) = <<>>
          /\ Inversions(after, selectionOf(after, playerId)) = 0

\* the card id lists a direct claimSet call is given: the caller's selection
\* when it is a valid set (what handleValidSet passes), the ids of the
\* previous call, and every valid set of three among the first ClaimWindow
\* table cards, in table order
ClaimInputs(st, playerId) ==
    LET w == 1..Len(st.activeCards) \cap 1..ClaimWindow
    IN {result.cardIds}
        \cup {selectionOf(st, q) : q \in {p \in {playerId} :
                                             isPlayerSelectionValid(st, p)}}
        \cup {<<st.activeCards[t[1]], st.activeCards[t[2]], st.activeCards[t[3]]>> :
                t \in {u \in w \X w \X w :
                         /\ u[1] < u[2] /\ u[2] < u[3]
                         /\ Xor(cardValue(st.activeCards[u[1]]),
                                Xor(cardValue(st.activeCards[u[2]]),
                                    cardValue(st.activeCards[u[3]]))) = 0}}

\* ------------------------------------------------------------------------
\* GameManager.ts
\* ------------------------------------------------------------------------
holds(playerId) == pendingSet # <<>> /\ pendingSet[1].playerId = playerId

\* GameManager.claimSet as a function of the room: the new state, the new
\* loop handle and the value returned
GameManager_claimSet(st, loop, playerId, cardIds, firstId, kind) ==
    LET claimResult == claimSet(st, playerId, cardIds, firstId, kind)
        endReason == IF claimResult.pointsAwarded = 0 THEN "null"
                     ELSE checkGameEnd(claimResult.state)
    IN IF claimResult.pointsAwarded = 0
       THEN [state |-> st, loopInterval |-> loop,
             result |-> [Err("claimSet", "NOT_A_VALID_SET") EXCEPT
                            !.cardIds = cardIds]]
       ELSE [state |-> IF endReason # "null"
                       THEN endGame(claimResult.state, endReason)
                       ELSE claimResult.state,
             loopInterval |-> IF endReason # "null" THEN FALSE ELSE loop,
             result |-> [Ok("claimSet") EXCEPT
                            !.cardIds = cardIds,
                            !.pointsAwarded = claimResult.pointsAwarded,
                            !.gameEnded = (endReason # "null")]]

\* serials used up by a claim: returnCardsToDeck calls generateCardId once
\* per returned card
IdsAfter(st, r, cardIds) ==
    IF r.result.error = "none" /\ st.settings.infiniteDeck
    THEN nextId + Len(cardIds) ELSE nextId

\* a claim that would be the game's (MaxClaims + 1)st is not explored
ClaimInBounds(r) == r.result.error = "none" => claims < MaxClaims

ClaimsAfter(r) == IF r.result.error = "none" THEN claims + 1 ELSE claims

\* the shuffles a claim can draw: only an infinite-deck claim shuffles
ShufflesOf(st) == IF st.settings.infiniteDeck THEN ShuffleKinds ELSE {"keep"}

\* gameManager.toggleCard(lobbyCode, playerId, cardId)
ToggleCard(playerId, cardId) ==
    /\ ToggleInBounds(state, playerId, cardId)
    /\ IF state.phase # "playing"
       THEN /\ result' = Err("toggleCard", "GAME_NOT_STARTED")
            /\ state' = state
       ELSE \E newState \in {toggleCardSelection(state, playerId, cardId)} :
               /\ state' = newState
               /\ result' =
                    IF playerIndex(newState, playerId) = 0
                    THEN Err("toggleCard", "INVALID_REQUEST")
                    ELSE Ok("toggleCard")
    /\ UNCHANGED <<pendingSet, loopInterval, lobby, sockets, nextId, claims, elapsed, chatSent, endedSent, orphans>>

\* setPendingSet without the !game.pendingSet check
SetPendingSet_override(playerId) ==
    /\ isPlayerSelectionValid(state, playerId)
    /\ pendingSet' = <<[playerId |-> playerId,
                        cardIds |-> selectionOf(state, playerId)]>>
    /\ result' = Ok("setPendingSet")
    /\ UNCHANGED <<state, loopInterval, lobby, sockets, nextId, claims, elapsed, chatSent, endedSent, orphans>>

\* gameManager.setPendingSet(lobbyCode, playerId, cardIds), with the
\* arguments handleValidSet passes: a player's valid selection
SetPendingSet(playerId) ==
    /\ isPlayerSelectionValid(state, playerId)
    /\ pendingSet' =
         IF pendingSet = <<>>
         THEN <<[playerId |-> playerId,
                 cardIds |-> selectionOf(state, playerId)]>>
         ELSE pendingSet
    /\ result' = Ok("setPendingSet")
    /\ UNCHANGED <<state, loopInterval, lobby, sockets, nextId, claims, elapsed, chatSent, endedSent, orphans>>

\* gameManager.claimSet(lobbyCode, playerId, cardIds)
ClaimSet(playerId, cardIds) ==
    \E kind \in ShufflesOf(state) :
      \E r \in {GameManager_claimSet(state, loopInterval, playerId, cardIds,
                                     nextId, kind)} :
           /\ ClaimInBounds(r)
           /\ state' = r.state
           /\ loopInterval' = r.loopInterval
           /\ result' = r.result
           /\ nextId' = IdsAfter(state, r, cardIds)
           /\ claims' = ClaimsAfter(r)
           /\ UNCHANGED <<elapsed, chatSent, endedSent, orphans>>
           /\ UNCHANGED <<pendingSet, lobby, sockets>>

\* confirmSet of the GameManager: what the method does to the room
GameManager_confirmSet(playerId) ==
    IF pendingSet = <<>> \/ pendingSet[1].playerId # playerId
    THEN /\ result' = Err("confirmSet", "NO_PENDING_SET")
         /\ UNCHANGED <<state, pendingSet, loopInterval, lobby, sockets,
                        nextId, claims, elapsed, chatSent, orphans>>
    ELSE \E kind \in ShufflesOf(state) :
      \E cardIds \in {pendingSet[1].cardIds} :
      \E r \in {GameManager_claimSet(state, loopInterval, playerId, cardIds,
                                     nextId, kind)} :
           /\ ClaimInBounds(r)
           /\ state' = r.state
           /\ loopInterval' = r.loopInterval
           /\ result' = [r.result EXCEPT !.op = "confirmSet"]
           /\ pendingSet' = IF r.result.error # "none" THEN pendingSet ELSE <<>>
           /\ nextId' = IdsAfter(state, r, cardIds)
           /\ claims' = ClaimsAfter(r)
           /\ UNCHANGED <<elapsed, chatSent, orphans>>
           /\ UNCHANGED <<lobby, sockets>>

\* gameManager.confirmSet(lobbyCode, playerId), called directly: nothing is
\* broadcast
ConfirmSet(playerId) ==
    GameManager_confirmSet(playerId) /\ UNCHANGED endedSent

\* clearSelection that clears the pending slot whoever holds it
ClearSelection_dropsPending(playerId) ==
    /\ state' = clearSelection(state, playerId)
    /\ pendingSet' = <<>>
    /\ result' = Ok("clearSelection")
    /\ UNCHANGED <<loopInterval, lobby, sockets, nextId, claims, elapsed, chatSent, endedSent, orphans>>

\* gameManager.clearSelection(lobbyCode, playerId)
ClearSelection(playerId) ==
    /\ state' = clearSelection(state, playerId)
    /\ pendingSet' = IF holds(playerId) THEN <<>> ELSE pendingSet
    /\ result' = Ok("clearSelection")
    /\ UNCHANGED <<loopInterval, lobby, sockets, nextId, claims, elapsed, chatSent, endedSent, orphans>>

\* the time between two runs of the loop callback: the configured period
ElapsedChoices == {tickRateMs}

\* one run of the setInterval callback of startGameLoop, elapsedMs after the
\* previous one, with the onTick and onEnd callbacks that startGame passes:
\* onEnd broadcasts game:ended
Tick(elapsedMs) ==
    /\ loopInterval
    /\ IF state.phase # "playing"
       THEN /\ loopInterval' = FALSE
            /\ UNCHANGED <<state, result, endedSent>>
       ELSE LET updated == updateTimers(state, elapsedMs)
                endReason == checkGameEnd(updated)
            IN IF endReason # "null"
               THEN /\ state' = endGame(updated, endReason)
                    /\ loopInterval' = FALSE
                    /\ result' = Ok("onEnd")
                    /\ endedSent' = endedSent + 1
               ELSE /\ state' = updated
                    /\ loopInterval' = loopInterval
                    /\ result' = Ok("onTick")
                    /\ endedSent' = endedSent
    /\ UNCHANGED <<pendingSet, lobby, sockets, nextId, claims, elapsed, chatSent, orphans>>

Next ==
    \/ \E p \in Callers : \E c \in ToggleInputs(state) : ToggleCard(p, c)
    \/ \E p \in Range(Players) : SetPendingSet(p)
    \/ \E p \in Callers : \E ids \in ClaimInputs(state, p) : ClaimSet(p, ids)
    \/ \E p \in Callers : ConfirmSet(p)
    \/ \E p \in Callers : ClearSelection(p)
    \/ \E e \in ElapsedChoices : Tick(e)

Spec == Init /\ [][Next]_vars

\* ------------------------------------------------------------------------
\* LobbyManager.ts and the socket handlers
\* ------------------------------------------------------------------------
\* leaveLobby's forEach that leaves numbers and colors as they were
renumber_keeps(players) == players

\* lobby.players.forEach((p, i) => { p.playerNumber = i + 1;
\*     p.color = PLAYER_COLORS[i % PLAYER_COLORS.length] }), a color being
\* its index in PLAYER_COLORS
renumber(players) ==
    [i \in 1..Len(players) |->
        [players[i] EXCEPT !.playerNumber = i,
                           !.color = (i - 1) % PLAYER_COLORS_length]]

\* no host is ever promoted
newHostIdOf_never(lob, playerId, players) == "undefined"

\* newHostId of leaveLobby, players being those who remain
newHostIdOf(lob, playerId, players) ==
    IF playerId = lob[1].hostId THEN players[1].id ELSE "undefined"

\* lobbyManager.leaveLobby(lobbyCode, playerId) on the lobbies map (the one
\* lobby, or none once it is deleted): the map afterwards, the error, and
\* the lobbyDeleted and newHostId returned
leaveLobby(lob, playerId) ==
    IF lob = <<>>
    THEN [lobby |-> lob, error |-> "LOBBY_NOT_FOUND",
          lobbyDeleted |-> FALSE, newHostId |-> "undefined"]
    ELSE
      LET idx == findIndex(lob[1].players, LAMBDA p : p.id = playerId)
          spliced == filter(lob[1].players, LAMBDA p : p.id # playerId)
          renumbered == renumber(spliced)
          newHostId == newHostIdOf(lob, playerId, renumbered)
      IN IF idx = 0
         THEN [lobby |-> lob, error |-> "INVALID_REQUEST",
               lobbyDeleted |-> FALSE, newHostId |-> "undefined"]
         ELSE IF spliced = <<>>
         THEN [lobby |-> <<>>, error |-> "none",
               lobbyDeleted |-> TRUE, newHostId |-> "undefined"]
         ELSE [lobby |-> <<[lob[1] EXCEPT
                              !.hostId = IF newHostId # "undefined"
                                         THEN newHostId ELSE @,
                              !.players = renumbered]>>,
               error |-> "none",
               lobbyDeleted |-> FALSE, newHostId |-> newHostId]

\* handlePlayerLeave(io, socket): the lobby is left and the socket forgets
\* its lobby code; event is the socket event that ran it
handlePlayerLeave(playerId, event) ==
    /\ sockets[playerId]
    /\ \E r \in {leaveLobby(lobby, playerId)} :
          /\ lobby' = r.lobby
          /\ sockets' = IF r.error # "none" THEN sockets
                        ELSE [sockets EXCEPT ![playerId] = FALSE]
          /\ result' = IF r.error # "none" THEN Err(event, r.error)
                       ELSE Ok(event)
    /\ UNCHANGED <<state, pendingSet, loopInterval, nextId, claims, elapsed, chatSent, endedSent, orphans>>

\* socket.on('lobby:leave')
OnLeave(playerId) == handlePlayerLeave(playerId, "lobby:leave")

\* socket.on('disconnect')
OnDisconnect(playerId) == handlePlayerLeave(playerId, "disconnect")

\* handleValidSet claims in every mode
claimsAtOnce_always(settings) == TRUE

\* settings.setFoundBehavior === 'immediate' of handleValidSet
claimsAtOnce(settings) == settings.setFoundBehavior = "immediate"

\* the game:toggleCard handler of playerId's socket, with handleValidSet:
\* in immediate mode the valid selection is claimed, and game:ended is
\* broadcast when the claim ends the game; in click mode setPendingSet is
\* called and game:setPending is broadcast with the player and the selection
gameToggleCard(playerId, cardId) ==
    /\ sockets[playerId]
    /\ IF state.phase # "playing"
       THEN /\ result' = Err("game:toggleCard", "GAME_NOT_STARTED")
            /\ UNCHANGED <<state, pendingSet, loopInterval, nextId, claims, elapsed, chatSent, endedSent, orphans>>
       ELSE \E toggled \in {toggleCardSelection(state, playerId, cardId)} :
            IF ~isPlayerSelectionValid(toggled, playerId)
            THEN /\ state' = toggled
                 /\ result' = Ok("game:toggleCard")
                 /\ UNCHANGED <<pendingSet, loopInterval, nextId, claims, elapsed, chatSent, endedSent, orphans>>
            ELSE IF claimsAtOnce(toggled.settings)
            THEN \E kind \in ShufflesOf(toggled) :
                 \E cardIds \in {selectionOf(toggled, playerId)} :
                 \E r \in {GameManager_claimSet(toggled, loopInterval, playerId,
                                                cardIds, nextId, kind)} :
                    /\ ClaimInBounds(r)
                    /\ state' = r.state
                    /\ loopInterval' = r.loopInterval
                    /\ result' = [r.result EXCEPT !.op = "game:setClaimed"]
                    /\ nextId' = IdsAfter(toggled, r, cardIds)
                    /\ claims' = ClaimsAfter(r)
                    /\ endedSent' = IF r.result.gameEnded
                                    THEN endedSent + 1 ELSE endedSent
                    /\ UNCHANGED <<elapsed, chatSent, orphans>>
                    /\ UNCHANGED pendingSet
            ELSE /\ state' = toggled
                 /\ pendingSet' =
                      IF pendingSet = <<>>
                      THEN <<[playerId |-> playerId,
                              cardIds |-> selectionOf(toggled, playerId)]>>
                      ELSE pendingSet
                 /\ result' = [Ok("game:setPending") EXCEPT
                                 !.playerId = playerId,
                                 !.cardIds = selectionOf(toggled, playerId)]
                 /\ UNCHANGED <<loopInterval, nextId, claims, elapsed, chatSent, endedSent, orphans>>
    /\ UNCHANGED <<lobby, sockets>>

\* socket.on('game:toggleCard'), for the clicks that are explored
OnToggleCard(playerId, cardId) ==
    ToggleInBounds(state, playerId, cardId) /\ gameToggleCard(playerId, cardId)

\* socket.on('game:confirmSet'): game:ended is broadcast when the claim
\* returned gameEnded
OnConfirmSet(playerId) ==
    /\ sockets[playerId]
    /\ GameManager_confirmSet(playerId)
    /\ endedSent' = IF result'.error = "none" /\ result'.gameEnded
                    THEN endedSent + 1 ELSE endedSent

\* socket.on('game:clearSelection')
OnClearSelection(playerId) == sockets[playerId] /\ ClearSelection(playerId)

NextEvents ==
    \/ \E p \in Range(Players) : \E c \in ToggleInputs(state) : OnToggleCard(p, c)
    \/ \E p \in Range(Players) : OnConfirmSet(p)
    \/ \E p \in Range(Players) : OnClearSelection(p)
    \/ \E p \in Range(Players) : OnLeave(p)
    \/ \E p \in Range(Players) : OnDisconnect(p)
    \/ \E e \in ElapsedChoices : Tick(e)

\* the server as its clients drive it
SpecEvents == Init /\ [][NextEvents]_vars

\* ------------------------------------------------------------------------
\* claimSet and toggleCardSelection of state.ts applied to a game with given
\* selections
\* ------------------------------------------------------------------------
\* the selections toggleCardSelection can build from the first ToggleWindow
\* table cards, in any click order
Selections(st) ==
    LET w == ToggleInputs(st) \ {FakeId}
    IN {s \in UNION {[1..n -> w] : n \in 0..Cardinality(w)} :
           \A i, j \in 1..Len(s) : i # j => s[i] # s[j]}

withSelections(st, sels) ==
    [st EXCEPT !.players =
        [i \in 1..Len(st.players) |->
            [st.players[i] EXCEPT !.selectedCardIds = sels[i]]]]

\* the card id lists claimSet is given: the caller's selection, and every
\* three of the clicked cards, the two table cards after them and an id
\* that is not on the table
PureInputs(st, playerId) ==
    LET pool == [i \in 1..Len(st.activeCards) \cap 1..(ToggleWindow + 2) |->
                    st.activeCards[i]] \o <<FakeId>>
        w == 1..Len(pool)
    IN {selectionOf(st, playerId)}
        \cup {<<pool[u[1]], pool[u[2]], pool[u[3]]>> :
                u \in {t \in w \X w \X w : t[1] < t[2] /\ t[2] < t[3]}}

InitPure ==
    \E settings \in SettingsChoices :
      \E fresh \in {createMultiplayerGame(
                        [i \in 1..Len(Players) |-> LobbyPlayer(Players[i], i)],
                        settings, createShuffledDeck)} :
        \E sels \in [1..Len(Players) -> Selections(fresh)] :
            /\ SumSeq([i \in 1..Len(Players) |-> Len(sels[i])]) <= ToggleWindow
            /\ state = withSelections(fresh, sels)
            /\ lobby = <<>>
            /\ sockets = [p \in Range(Players) |-> FALSE]
            /\ pendingSet = <<>>
            /\ loopInterval = FALSE
            /\ result = NoResult
            /\ nextId = 1
            /\ claims = 0
            /\ elapsed = 0
            /\ chatSent = 0
            /\ endedSent = 0
            /\ orphans = <<>>

\* one call claimSet(state, playerId, cardIds) on the drawn game
ApplyClaimSet(playerId, cardIds) ==
    /\ result.op = "createGame"
    /\ \E kind \in ShufflesOf(state) :
       \E r \in {claimSet(state, playerId, cardIds, nextId, kind)} :
          /\ state' = r.state
          /\ result' = [Ok("state.claimSet") EXCEPT
                           !.cardIds = cardIds,
                           !.pointsAwarded = r.pointsAwarded]
          /\ nextId' = IF r.pointsAwarded > 0 /\ state.settings.infiniteDeck
                       THEN nextId + Len(cardIds) ELSE nextId
          /\ claims' = IF r.pointsAwarded > 0 THEN claims + 1 ELSE claims
          /\ UNCHANGED <<elapsed, chatSent, endedSent, orphans>>
    /\ UNCHANGED <<pendingSet, loopInterval, lobby, sockets>>

\* one call toggleCardSelection(state, playerId, cardId) on the drawn game
ApplyToggle(playerId, cardId) ==
    /\ result.op = "createGame"
    /\ state' = toggleCardSelection(state, playerId, cardId)
    /\ result' = [Ok("toggleCardSelection") EXCEPT !.cardIds = <<cardId>>]
    /\ UNCHANGED <<pendingSet, loopInterval, lobby, sockets, nextId, claims, elapsed, chatSent, endedSent, orphans>>

NextPure ==
    \/ \E p \in Callers : \E ids \in PureInputs(state, p) :
            ApplyClaimSet(p, ids)
    \/ \E p \in Callers : \E c \in ToggleInputs(state) : ApplyToggle(p, c)

SpecPure == InitPure /\ [][NextPure]_vars

\* ------------------------------------------------------------------------
\* The engine's timers and end check (state.ts) applied to drawn games
\* ------------------------------------------------------------------------
\* every combination of deck mode, turn timer and game timer
EngineSettings ==
    {Settings(infiniteDeck, "cards", "click", turnTimer, gameTimer) :
        infiniteDeck \in BOOLEAN,
        turnTimer \in {Null, TurnTicks * tickRateMs},
        gameTimer \in {Null, GameTicks * tickRateMs}}

\* the tables of the games state.test.ts builds by hand on an emptied deck
\* (no valid set; a valid set), and the empty table
EngineTables ==
    {<<>>,
     <<Card(0, 1), Card(0, 4), Card(0, 16)>>,
     <<Card(0, 1), Card(0, 2), Card(0, 3)>>}

\* game = { ...game, deck: [], activeCards: table }
withTable(st, table) == [st EXCEPT !.deck = <<>>, !.activeCards = table]

InitEngine ==
    \E settings \in EngineSettings :
      \E fresh \in {createMultiplayerGame(
                        [i \in 1..Len(Players) |-> LobbyPlayer(Players[i], i)],
                        settings, createShuffledDeck)} :
            /\ state \in {fresh} \cup {withTable(fresh, t) : t \in EngineTables}
            /\ lobby = <<>>
            /\ sockets = [p \in Range(Players) |-> FALSE]
            /\ pendingSet = <<>>
            /\ loopInterval = FALSE
            /\ result = NoResult
            /\ nextId = 1
            /\ claims = 0
            /\ elapsed = 0
            /\ chatSent = 0
            /\ endedSent = 0
            /\ orphans = <<>>

\* the elapsed times passed to updateTimers: one period of the loop, and one
\* longer than the turn timer
EngineElapsed == {tickRateMs, (TurnTicks + 1) * tickRateMs}

\* one call updateTimers(state, elapsedMs), while the time passed so far has
\* not outrun the game timer
ApplyUpdateTimers(elapsedMs) ==
    /\ elapsed <= GameTicks * tickRateMs
    /\ state' = updateTimers(state, elapsedMs)
    /\ elapsed' = elapsed + elapsedMs
    /\ result' = Ok("updateTimers")
    /\ UNCHANGED <<pendingSet, loopInterval, lobby, sockets, nextId, claims, orphans, chatSent, endedSent>>

\* one call checkGameEnd(state)
ApplyCheckGameEnd ==
    /\ result' = [Ok("checkGameEnd") EXCEPT !.endReason = checkGameEnd(state)]
    /\ UNCHANGED <<state, pendingSet, loopInterval, lobby, sockets, nextId, claims, elapsed, chatSent, endedSent, orphans>>

\* the card id lists claimSet is given here: the empty list, and the runs
\* of MIN_SET_SIZE - 1 and of MIN_SET_SIZE table cards that start at the
\* first or the second card
EngineInputs(st) ==
    LET n == Len(st.activeCards)
        run(from, len) == [i \in 1..len |-> st.activeCards[from + i - 1]]
    IN {<<>>} \cup
       {run(w[1], w[2]) :
          w \in {x \in (1..2) \X {MIN_SET_SIZE - 1, MIN_SET_SIZE} :
                   x[1] + x[2] - 1 <= n}}

\* one call claimSet(state, playerId, cardIds), at any time
ApplyTimedClaimSet(playerId, cardIds) ==
    \E kind \in ShufflesOf(state) :
    \E r \in {claimSet(state, playerId, cardIds, nextId, kind)} :
        /\ r.pointsAwarded > 0 => claims < MaxClaims
        /\ state' = r.state
        /\ result' = [Ok("state.claimSet") EXCEPT
                         !.cardIds = cardIds,
                         !.pointsAwarded = r.pointsAwarded]
        /\ nextId' = IF r.pointsAwarded > 0 /\ state.settings.infiniteDeck
                     THEN nextId + Len(cardIds) ELSE nextId
        /\ claims' = IF r.pointsAwarded > 0 THEN claims + 1 ELSE claims
        /\ UNCHANGED <<pendingSet, loopInterval, lobby, sockets, elapsed, chatSent, endedSent, orphans>>

NextEngine ==
    \/ \E e \in EngineElapsed : ApplyUpdateTimers(e)
    \/ ApplyCheckGameEnd
    \/ \E p \in Callers : \E ids \in EngineInputs(state) :
            ApplyTimedClaimSet(p, ids)

\* the pure engine functions, called in any order on a drawn game
SpecEngine == InitEngine /\ [][NextEngine]_vars

\* ------------------------------------------------------------------------
\* The timer loops of a room on which games are started again
\* ------------------------------------------------------------------------
\* lobbyManager.canStartGame(lobbyCode, playerId)
canStartGame(lob, playerId) ==
    IF lob = <<>> THEN "LOBBY_NOT_FOUND"
    ELSE IF lob[1].hostId # playerId THEN "NOT_HOST"
    ELSE "none"

hasTimer(settings) == settings.turnTimer # Null \/ settings.gameTimer # Null

\* socket.on('lobby:startGame') of playerId's socket, with startGame: the
\* room's instance is replaced by createGame; the interval of the replaced
\* instance, if one is scheduled, stays scheduled
OnStartGame(playerId) ==
    /\ sockets[playerId]
    /\ loopInterval => Len(orphans) < MaxRestarts
    /\ IF canStartGame(lobby, playerId) # "none"
       THEN /\ result' = Err("lobby:startGame", canStartGame(lobby, playerId))
            /\ UNCHANGED <<state, pendingSet, loopInterval, orphans, endedSent>>
       ELSE /\ state' = createMultiplayerGame(lobby[1].players, state.settings,
                                              createShuffledDeck)
            /\ pendingSet' = <<>>
            /\ loopInterval' = hasTimer(state.settings)
            /\ orphans' = IF loopInterval
                          THEN Append(orphans, [state |-> state,
                                                interval |-> TRUE])
                          ELSE orphans
            /\ result' = Ok("lobby:startGame")
            /\ endedSent' = 0
    /\ UNCHANGED <<lobby, sockets, nextId, claims, elapsed, chatSent>>

\* one run of the setInterval callback of the i-th replaced instance: its
\* closure holds that instance, while stopGameLoop(lobbyCode) looks the
\* room's current instance up and clears the interval of that one
OrphanTick(i, elapsedMs) ==
    /\ orphans[i].interval
    /\ IF orphans[i].state.phase # "playing"
       THEN /\ loopInterval' = FALSE
            /\ UNCHANGED <<orphans, result, endedSent>>
       ELSE LET updated == updateTimers(orphans[i].state, elapsedMs)
                endReason == checkGameEnd(updated)
            IN IF endReason # "null"
               THEN /\ orphans' = [orphans EXCEPT
                                     ![i].state = endGame(updated, endReason)]
                    /\ loopInterval' = FALSE
                    /\ result' = [Ok("onEnd") EXCEPT !.loop = i]
                    /\ endedSent' = endedSent + 1
               ELSE /\ orphans' = [orphans EXCEPT ![i].state = updated]
                    /\ loopInterval' = loopInterval
                    /\ result' = [Ok("onTick") EXCEPT !.loop = i]
                    /\ endedSent' = endedSent
    /\ UNCHANGED <<state, pendingSet, lobby, sockets, nextId, claims, elapsed, chatSent>>

NextLoop ==
    \/ \E p \in Range(Players) : OnStartGame(p)
    \/ \E e \in ElapsedChoices : Tick(e)
    \/ \E i \in 1..Len(orphans) : \E e \in ElapsedChoices : OrphanTick(i, e)
    \/ \E p \in Callers : \E ids \in ClaimInputs(state, p) : ClaimSet(p, ids)

\* a room whose games run on timers, claims and restarts
SpecLoop == Init /\ [][NextLoop]_vars

\* ------------------------------------------------------------------------
\* LobbyManager.ts called directly: createLobby, joinLobby, leaveLobby
\* ------------------------------------------------------------------------
\* the code createLobby generated for the room, and a code no lobby has
RoomCode == "ROOM"
NoCode == "NONE"
Codes == {RoomCode, NoCode}

\* this.lobbies.get(code)
lobbiesGet(lob, code) == IF code = RoomCode THEN lob ELSE <<>>

\* the Player that createLobby and joinLobby build, a color being its index
\* in PLAYER_COLORS
Player(id, name, playerNumber) ==
    [id |-> id, name |-> name, playerNumber |-> playerNumber,
     color |-> (playerNumber - 1) % PLAYER_COLORS_length,
     isReady |-> FALSE]

\* the display settings colorsEnabled and binaryMode are left out
DEFAULT_MULTIPLAYER_SETTINGS == Settings(FALSE, "cards", "immediate", Null, Null)

\* lobbyManager.createLobby(hostId, hostName): the lobbies map afterwards
createLobby(hostId, hostName) ==
    <<[hostId |-> hostId, players |-> <<Player(hostId, hostName, 1)>>,
       settings |-> DEFAULT_MULTIPLAYER_SETTINGS,
       settingsUnlocked |-> FALSE,
       chatMessages |-> <<>>]>>

\* joinLobby without the capacity check
joinLobby_noLimit(lob, code, playerId, playerName) ==
    LET found == lobbiesGet(lob, code)
    IN IF found = <<>>
       THEN [lobby |-> lob, error |-> "LOBBY_NOT_FOUND", player |-> <<>>]
       ELSE
        LET idx == findIndex(found[1].players, LAMBDA p : p.id = playerId)
            player == Player(playerId, playerName, Len(found[1].players) + 1)
        IN IF idx # 0
           THEN [lobby |-> lob, error |-> "none",
                 player |-> <<found[1].players[idx]>>]
           ELSE [lobby |-> <<[found[1] EXCEPT !.players = Append(@, player)]>>,
                 error |-> "none", player |-> <<player>>]

\* lobbyManager.joinLobby(code, playerId, playerName): the lobbies map
\* afterwards, the error, and the player returned
joinLobby(lob, code, playerId, playerName) ==
    LET found == lobbiesGet(lob, code)
    IN IF found = <<>>
       THEN [lobby |-> lob, error |-> "LOBBY_NOT_FOUND", player |-> <<>>]
       ELSE IF Len(found[1].players) >= maxPlayersPerLobby
       THEN [lobby |-> lob, error |-> "LOBBY_FULL", player |-> <<>>]
       ELSE
        LET idx == findIndex(found[1].players, LAMBDA p : p.id = playerId)
            player == Player(playerId, playerName, Len(found[1].players) + 1)
        IN IF idx # 0
           THEN [lobby |-> lob, error |-> "none",
                 player |-> <<found[1].players[idx]>>]
           ELSE [lobby |-> <<[found[1] EXCEPT !.players = Append(@, player)]>>,
                 error |-> "none", player |-> <<player>>]

\* the lobby manager after construction: no lobby, no player id handed out,
\* no game instance
InitLobby ==
    /\ lobby = <<>>
    /\ sockets = [p \in {} |-> FALSE]
    /\ state = <<>>
    /\ pendingSet = <<>>
    /\ loopInterval = FALSE
    /\ result = NoResult
    /\ nextId = 1
    /\ claims = 0
    /\ elapsed = 0
    /\ chatSent = 0
    /\ endedSent = 0
    /\ orphans = <<>>

\* the ids in the room
members(lob) ==
    IF lob = <<>> THEN {}
    ELSE {lob[1].players[i].id : i \in 1..Len(lob[1].players)}

\* generatePlayerId() of the next connection
freshId == "p" \o ToString(Cardinality(DOMAIN sockets) + 1)

\* the name a player gives, and another name
nameOf(playerId) == "name of " \o playerId
OtherName == "another name"

\* the ids the methods are called with: those in the room and a new one
LobbyCallers == members(lobby) \cup {freshId}

\* which ids are in the room, over the ids that have ever been in it
socketsAfter(lob) ==
    [p \in DOMAIN sockets \cup members(lob) |-> p \in members(lob)]

\* createLobby(hostId, hostName), while there is no room
CreateLobby(hostId, hostName) ==
    /\ lobby = <<>>
    /\ Cardinality(DOMAIN sockets) < MaxIds
    /\ lobby' = createLobby(hostId, hostName)
    /\ sockets' = socketsAfter(lobby')
    /\ result' = [Ok("createLobby") EXCEPT !.player = lobby'[1].players]
    /\ UNCHANGED <<state, pendingSet, loopInterval, nextId, claims, elapsed, chatSent, endedSent, orphans>>

\* joinLobby(code, playerId, playerName)
JoinLobby(code, playerId, playerName) ==
    \E r \in {joinLobby(lobby, code, playerId, playerName)} :
        /\ members(r.lobby) # members(lobby)
              => Cardinality(DOMAIN sockets) < MaxIds
        /\ lobby' = r.lobby
        /\ sockets' = socketsAfter(r.lobby)
        /\ result' = [Err("joinLobby", r.error) EXCEPT !.player = r.player]
        /\ UNCHANGED <<state, pendingSet, loopInterval, nextId, claims, elapsed, chatSent, endedSent, orphans>>

\* leaveLobby(code, playerId)
LeaveLobby(code, playerId) ==
    \E r \in {leaveLobby(lobbiesGet(lobby, code), playerId)} :
        /\ lobby' = IF code = RoomCode THEN r.lobby ELSE lobby
        /\ sockets' = socketsAfter(lobby')
        /\ result' = [Err("leaveLobby", r.error) EXCEPT
                         !.lobbyDeleted = r.lobbyDeleted,
                         !.newHostId = r.newHostId]
        /\ UNCHANGED <<state, pendingSet, loopInterval, nextId, claims, elapsed, chatSent, endedSent, orphans>>

\* a new player gives its own name; a player in the room may give another
NextLobby ==
    \/ CreateLobby(freshId, nameOf(freshId))
    \/ \E code \in Codes : \E p \in LobbyCallers :
         \E name \in {nameOf(p), OtherName} :
            /\ p = freshId => name = nameOf(p)
            /\ JoinLobby(code, p, name)
    \/ \E code \in Codes : \E p \in LobbyCallers : LeaveLobby(code, p)

SpecLobby == InitLobby /\ [][NextLobby]_vars

\* ------------------------------------------------------------------------
\* LobbyManager.ts: settings, lock, ready flags and the start check
\* ------------------------------------------------------------------------
\* { ...settings, ...partial }
mergeSettings(settings, partial) ==
    [f \in DOMAIN settings |->
        IF f \in DOMAIN partial THEN partial[f] ELSE settings[f]]

\* updateSettings without the lock: anybody's settings are merged
updateSettings_noLock(lob, code, playerId, partial) ==
    LET found == lobbiesGet(lob, code)
    IN IF found = <<>> THEN [lobby |-> lob, error |-> "LOBBY_NOT_FOUND"]
       ELSE [lobby |-> <<[found[1] EXCEPT
                            !.settings = mergeSettings(@, partial)]>>,
             error |-> "none"]

\* lobbyManager.updateSettings(code, playerId, partial): the lobbies map
\* afterwards and the error
updateSettings(lob, code, playerId, partial) ==
    LET found == lobbiesGet(lob, code)
    IN IF found = <<>> THEN [lobby |-> lob, error |-> "LOBBY_NOT_FOUND"]
       ELSE IF ~found[1].settingsUnlocked /\ playerId # found[1].hostId
       THEN [lobby |-> lob, error |-> "SETTINGS_LOCKED"]
       ELSE [lobby |-> <<[found[1] EXCEPT
                            !.settings = mergeSettings(@, partial)]>>,
             error |-> "none"]

\* toggleSettingsLock without the host check
toggleSettingsLock_anyone(lob, code, playerId) ==
    LET found == lobbiesGet(lob, code)
    IN IF found = <<>> THEN [lobby |-> lob, error |-> "LOBBY_NOT_FOUND"]
       ELSE [lobby |-> <<[found[1] EXCEPT !.settingsUnlocked = ~@]>>,
             error |-> "none"]

\* lobbyManager.toggleSettingsLock(code, playerId)
toggleSettingsLock(lob, code, playerId) ==
    LET found == lobbiesGet(lob, code)
    IN IF found = <<>> THEN [lobby |-> lob, error |-> "LOBBY_NOT_FOUND"]
       ELSE IF playerId # found[1].hostId
       THEN [lobby |-> lob, error |-> "NOT_HOST"]
       ELSE [lobby |-> <<[found[1] EXCEPT !.settingsUnlocked = ~@]>>,
             error |-> "none"]

\* lobbyManager.toggleReady(code, playerId)
toggleReady(lob, code, playerId) ==
    LET found == lobbiesGet(lob, code)
    IN IF found = <<>> THEN [lobby |-> lob, error |-> "LOBBY_NOT_FOUND"]
       ELSE
        LET idx == findIndex(found[1].players, LAMBDA p : p.id = playerId)
        IN IF idx = 0 THEN [lobby |-> lob, error |-> "INVALID_REQUEST"]
           ELSE [lobby |-> <<[found[1] EXCEPT !.players[idx].isReady = ~@]>>,
                 error |-> "none"]

\* the partial settings the clients send: none, one field, two fields
SettingsPartials ==
    {<<>>,
     [infiniteDeck |-> TRUE],
     [infiniteDeck |-> FALSE, scoringMode |-> "sets"]}

\* a game whose settings were the very object that updateSettings writes
gameAfterUpdate_shared(st, lob) ==
    IF st = <<>> \/ lob = <<>> THEN st
    ELSE [st EXCEPT !.settings = lob[1].settings]

\* the room's game after updateSettings: lobby.settings is assigned a new
\* object, the one that createMultiplayerGame stored in the game is not
\* written
gameAfterUpdate(st, lob) == st

\* updateSettings(code, playerId, partial)
UpdateSettings(code, playerId, partial) ==
    \E r \in {updateSettings(lobby, code, playerId, partial)} :
        /\ lobby' = r.lobby
        /\ state' = gameAfterUpdate(state, r.lobby)
        /\ result' = Err("updateSettings", r.error)
        /\ UNCHANGED <<pendingSet, loopInterval, sockets, nextId, claims, elapsed, chatSent, endedSent, orphans>>

\* toggleSettingsLock(code, playerId)
ToggleSettingsLock(code, playerId) ==
    \E r \in {toggleSettingsLock(lobby, code, playerId)} :
        /\ lobby' = r.lobby
        /\ result' = Err("toggleSettingsLock", r.error)
        /\ UNCHANGED <<state, pendingSet, loopInterval, sockets, nextId, claims, elapsed, chatSent, endedSent, orphans>>

\* toggleReady(code, playerId)
ToggleReady(code, playerId) ==
    \E r \in {toggleReady(lobby, code, playerId)} :
        /\ lobby' = r.lobby
        /\ result' = Err("toggleReady", r.error)
        /\ UNCHANGED <<state, pendingSet, loopInterval, sockets, nextId, claims, elapsed, chatSent, endedSent, orphans>>

\* canStartGame(code, playerId)
CanStartGame(code, playerId) ==
    /\ result' = Err("canStartGame", canStartGame(lobbiesGet(lobby, code), playerId))
    /\ UNCHANGED <<state, pendingSet, loopInterval, lobby, sockets, nextId, claims, elapsed, chatSent, endedSent, orphans>>

\* startGame(io, lobbyCode) of game.ts: nothing without the lobby, else
\* createGame with the lobby's players and settings, and startGameLoop when
\* a timer is configured
StartGame(code) ==
    /\ lobbiesGet(lobby, code) # <<>>
    /\ loopInterval => Len(orphans) < MaxRestarts
    /\ state' = createMultiplayerGame(lobby[1].players, lobby[1].settings,
                                      createShuffledDeck)
    /\ pendingSet' = <<>>
    /\ loopInterval' = hasTimer(lobby[1].settings)
    /\ orphans' = IF loopInterval
                  THEN Append(orphans, [state |-> state, interval |-> TRUE])
                  ELSE orphans
    /\ result' = Ok("startGame")
    /\ endedSent' = 0
    /\ UNCHANGED <<lobby, sockets, nextId, claims, elapsed, chatSent>>

NextSettings ==
    \/ /\ Cardinality(DOMAIN sockets) < MaxSettingsIds
       /\ CreateLobby(freshId, nameOf(freshId))
    \/ \E code \in Codes : \E p \in LobbyCallers :
         /\ p = freshId => Cardinality(DOMAIN sockets) < MaxSettingsIds
         /\ JoinLobby(code, p, nameOf(p))
    \/ \E code \in Codes : \E p \in LobbyCallers : LeaveLobby(code, p)
    \/ \E code \in Codes : \E p \in LobbyCallers :
         \E partial \in SettingsPartials : UpdateSettings(code, p, partial)
    \/ \E code \in Codes : \E p \in LobbyCallers : ToggleSettingsLock(code, p)
    \/ \E code \in Codes : \E p \in LobbyCallers : ToggleReady(code, p)
    \/ \E code \in Codes : \E p \in LobbyCallers : CanStartGame(code, p)
    \/ \E code \in Codes : StartGame(code)

SpecSettings == InitLobby /\ [][NextSettings]_vars

\* ------------------------------------------------------------------------
\* LobbyManager.ts: chat
\* ------------------------------------------------------------------------
\* chatMessages.slice(-n)
sliceLast(s, n) == IF Len(s) <= n THEN s ELSE SubSeq(s, Len(s) - n + 1, Len(s))

\* addChatMessage that trims to the oldest messages
addChatMessage_keepsOldest(lob, code, message) ==
    LET found == lobbiesGet(lob, code)
    IN IF found = <<>> THEN lob
       ELSE LET pushed == Append(found[1].chatMessages, message)
            IN <<[found[1] EXCEPT !.chatMessages =
                    IF Len(pushed) > chatMessagesLimit
                    THEN SubSeq(pushed, 1, chatMessagesLimit)
                    ELSE pushed]>>

\* lobbyManager.addChatMessage(code, message): the lobbies map afterwards
addChatMessage(lob, code, message) ==
    LET found == lobbiesGet(lob, code)
    IN IF found = <<>> THEN lob
       ELSE LET pushed == Append(found[1].chatMessages, message)
            IN <<[found[1] EXCEPT !.chatMessages =
                    IF Len(pushed) > chatMessagesLimit
                    THEN sliceLast(pushed, chatMessagesLimit)
                    ELSE pushed]>>

\* the ChatMessage that the lobby:chat handler builds for playerId; its id
\* is the number of the message, the timestamp is left out
ChatMessage(n, playerId, content) ==
    [id |-> n, playerId |-> playerId, playerName |-> nameOf(playerId),
     content |-> content]

\* a room with its host in it
InitChat ==
    /\ lobby = createLobby("p1", nameOf("p1"))
    /\ sockets = [p \in {"p1"} |-> TRUE]
    /\ state = <<>>
    /\ pendingSet = <<>>
    /\ loopInterval = FALSE
    /\ result = NoResult
    /\ nextId = 1
    /\ claims = 0
    /\ elapsed = 0
    /\ chatSent = 0
    /\ endedSent = 0
    /\ orphans = <<>>

\* addChatMessage(code, message) with the next message of playerId
AddChatMessage(code, playerId, content) ==
    /\ chatSent < MaxMessages
    /\ chatSent' = chatSent + 1
    /\ lobby' = addChatMessage(lobby, code,
                               ChatMessage(chatSent + 1, playerId, content))
    /\ result' = Ok("addChatMessage")
    /\ UNCHANGED <<state, pendingSet, loopInterval, sockets, nextId, claims, elapsed, endedSent, orphans>>

NextChat ==
    \E p \in members(lobby) : AddChatMessage(RoomCode, p, "hello")

SpecChat == InitChat /\ [][NextChat]_vars

\* ------------------------------------------------------------------------
\* validation.ts applied to lists of card values (state is the list)
\* ------------------------------------------------------------------------
\* values of the short lists: 1 ^ 2 ^ 3 = 0 and 3 ^ 33 ^ 34 = 0
ShortValues == {1, 2, 3, 33, 34}

RECURSIVE ListsUpTo(_)
\* every list of ShortValues of at most n values, repeats included
ListsUpTo(n) ==
    IF n = 0 THEN {<<>>}
    ELSE ListsUpTo(n - 1) \cup
         {Append(l, v) : l \in {x \in ListsUpTo(n - 1) : Len(x) = n - 1},
                         v \in ShortValues}

RECURSIVE Ascending(_)
\* the values of a set in ascending order
Ascending(S) ==
    IF S = {} THEN <<>>
    ELSE LET lo == CHOOSE x \in S : \A y \in S : x <= y
         IN <<lo>> \o Ascending(S \ {lo})

\* the six single-bit values
Basis == {2 ^ b : b \in 0..(BITS_PER_CARD - 1)}

\* tables of ACTIVE_CARD_COUNT distinct card values: the single-bit values
\* with any other value, first or last, and the tables over the lowest values
Tables ==
    {Ascending(Basis) \o <<v>> : v \in (1..DECK_SIZE) \ Basis}
    \cup {<<v>> \o Ascending(Basis) : v \in (1..DECK_SIZE) \ Basis}
    \cup {Ascending(S) : S \in {T \in SUBSET (1..(ACTIVE_CARD_COUNT + 2)) :
                                 Cardinality(T) = ACTIVE_CARD_COUNT}}

\* lists of MaxCards distinct card values, ascending and descending
LongLists ==
    {[i \in 1..MaxCards |-> i], [i \in 1..MaxCards |-> MaxCards + 1 - i]}

ValueLists == ListsUpTo(MaxListLen) \cup Tables \cup LongLists

InitValid ==
    /\ state \in ValueLists
    /\ lobby = <<>>
    /\ sockets = [p \in {} |-> FALSE]
    /\ pendingSet = <<>>
    /\ loopInterval = FALSE
    /\ result = NoResult
    /\ nextId = 1
    /\ claims = 0
    /\ elapsed = 0
    /\ chatSent = 0
    /\ endedSent = 0
    /\ orphans = <<>>

\* isValidSet(state)
ApplyIsValidSet ==
    /\ result.op = "createGame"
    /\ result' = [Ok("isValidSet") EXCEPT !.value = isValidSet(state)]
    /\ UNCHANGED <<state, pendingSet, loopInterval, lobby, sockets, nextId, claims, elapsed, chatSent, endedSent, orphans>>

\* hasValidSet(state)
ApplyHasValidSet ==
    /\ result.op = "createGame"
    /\ result' = [Ok("hasValidSet") EXCEPT !.value = hasValidSet(state)]
    /\ UNCHANGED <<state, pendingSet, loopInterval, lobby, sockets, nextId, claims, elapsed, chatSent, endedSent, orphans>>

\* findAllSets(state)
ApplyFindAllSets ==
    /\ result.op = "createGame"
    /\ result' = [Ok("findAllSets") EXCEPT !.value = findAllSets(state)]
    /\ UNCHANGED <<state, pendingSet, loopInterval, lobby, sockets, nextId, claims, elapsed, chatSent, endedSent, orphans>>

NextValid ==
    \/ ApplyIsValidSet
    \/ ApplyHasValidSet
    \/ ApplyFindAllSets

SpecValid == InitValid /\ [][NextValid]_vars

\* ------------------------------------------------------------------------
\* The end of a finite-deck game
\* ------------------------------------------------------------------------
\* the cards of the first valid set that findAllSets lists for a table
firstSetOnTable(st) ==
    LET sets == findAllSets(values(st.activeCards))
    IN subsetOf(st.activeCards, sets[1])

RECURSIVE playedDown(_, _)
\* the game after p1 has claimed the first set of each table, one claimSet
\* call after the other, until at most `left` cards are in the deck
playedDown(st, left) ==
    IF Len(st.deck) <= left \/ ~hasValidSet(values(st.activeCards)) THEN st
    ELSE playedDown(claimSet(st, Players[1], firstSetOnTable(st), 1, "keep").state,
                    left)

\* finite-deck settings, without timers; scoringMode is absent from the
\* settings of a single-player game
EndgameSettings ==
    {Settings(FALSE, "cards", "immediate", Null, Null),
     Settings(FALSE, "sets", "click", Null, Null),
     Settings(FALSE, "undefined", "immediate", Null, Null)}

\* a game played down to its last cards
EndgameStart(settings) ==
    playedDown(createMultiplayerGame(
                   [i \in 1..Len(Players) |-> LobbyPlayer(Players[i], i)],
                   settings, createShuffledDeck),
               EndgameDeck)

InitEndgame ==
    \E settings \in EndgameSettings :
        /\ lobby = <<[hostId |-> Players[1],
                      players |-> [i \in 1..Len(Players) |->
                                      LobbyPlayer(Players[i], i)]]>>
        /\ sockets = [p \in Range(Players) |-> TRUE]
        /\ state = EndgameStart(settings)
        /\ pendingSet = <<>>
        /\ loopInterval = FALSE
        /\ result = NoResult
        /\ nextId = 1
        /\ claims = 0
        /\ elapsed = 0
        /\ chatSent = 0
        /\ endedSent = 0
        /\ orphans = <<>>

\* the card id lists of the claims: every valid set of the table, and the
\* first MIN_SET_SIZE table cards
EndgameInputs(st) ==
    LET sets == findAllSets(values(st.activeCards))
    IN {subsetOf(st.activeCards, sets[j]) : j \in 1..Len(sets)}
       \cup {SubSeq(st.activeCards, 1, MIN_SET_SIZE) :
                x \in {y \in {1} : Len(st.activeCards) >= MIN_SET_SIZE}}

\* gameManager.claimSet(lobbyCode, playerId, cardIds) on the finite deck
LateClaimSet(playerId, cardIds) ==
    \E r \in {GameManager_claimSet(state, loopInterval, playerId, cardIds,
                                   nextId, "keep")} :
        /\ state' = r.state
        /\ loopInterval' = r.loopInterval
        /\ result' = r.result
        /\ UNCHANGED <<pendingSet, lobby, sockets, nextId, claims, elapsed, chatSent, endedSent, orphans>>

NextEndgame ==
    \E p \in Callers : \E ids \in EndgameInputs(state) : LateClaimSet(p, ids)

SpecEndgame == InitEndgame /\ [][NextEndgame]_vars

\* ------------------------------------------------------------------------
\* A click-mode room whose game runs on a game timer
\* ------------------------------------------------------------------------
\* click to confirm, finite deck, a game timer of GameTicks loop periods
ClickSettings == Settings(FALSE, "cards", "click", Null, GameTicks * tickRateMs)

\* startGame(io, lobbyCode) on a lobby of the two players with ClickSettings
InitClick ==
    /\ lobby = <<[hostId |-> Players[1],
                  players |-> [i \in 1..Len(Players) |->
                                  LobbyPlayer(Players[i], i)]]>>
    /\ sockets = [p \in Range(Players) |-> TRUE]
    /\ state = createMultiplayerGame(lobby[1].players, ClickSettings,
                                     createShuffledDeck)
    /\ pendingSet = <<>>
    /\ loopInterval = hasTimer(ClickSettings)
    /\ result = NoResult
    /\ nextId = 1
    /\ claims = 0
    /\ elapsed = 0
    /\ chatSent = 0
    /\ endedSent = 0
    /\ orphans = <<>>

NextClick ==
    \/ \E p \in Range(Players) : \E c \in ToggleInputs(state) : OnToggleCard(p, c)
    \/ \E p \in Range(Players) : OnConfirmSet(p)
    \/ \E p \in Range(Players) : OnClearSelection(p)
    \/ \E e \in ElapsedChoices : Tick(e)

\* the game events of the two players and the timer loop
SpecClick == InitClick /\ [][NextClick]_vars

\* ------------------------------------------------------------------------
\* An immediate-mode room in which both players select at the same time
\* ------------------------------------------------------------------------
\* claim at once, finite deck, no timers
ImmediateSettings == Settings(FALSE, "cards", "immediate", Null, Null)

InitImmediate ==
    /\ lobby = <<[hostId |-> Players[1],
                  players |-> [i \in 1..Len(Players) |->
                                  LobbyPlayer(Players[i], i)]]>>
    /\ sockets = [p \in Range(Players) |-> TRUE]
    /\ state = createMultiplayerGame(lobby[1].players, ImmediateSettings,
                                     createShuffledDeck)
    /\ pendingSet = <<>>
    /\ loopInterval = hasTimer(ImmediateSettings)
    /\ result = NoResult
    /\ nextId = 1
    /\ claims = 0
    /\ elapsed = 0
    /\ chatSent = 0
    /\ endedSent = 0
    /\ orphans = <<>>

\* the cards a player clicks: the first player the first cards of the
\* table, the second player any card of the table
ImmediateInputs(st, playerId) ==
    IF playerId = Players[1] THEN ToggleInputs(st) \ {FakeId}
    ELSE Range(st.activeCards)

\* the clicks that are explored: a card is added to a selection in table
\* order, whatever the other player has selected
InTableOrder(st, playerId, cardId) ==
    \E after \in {toggleCardSelection(st, playerId, cardId)} :
        Inversions(after, selectionOf(after, playerId)) = 0

\* socket.on('game:toggleCard') of either player
BothToggle(playerId, cardId) ==
    /\ claims < MaxClaims
    /\ InTableOrder(state, playerId, cardId)
    /\ gameToggleCard(playerId, cardId)

NextImmediate ==
    \E p \in Range(Players) : \E c \in ImmediateInputs(state, p) : BothToggle(p, c)

\* the clicks of two players up to the last claim explored
SpecImmediate == InitImmediate /\ [][NextImmediate]_vars

\* ------------------------------------------------------------------------
\* Properties
\* ------------------------------------------------------------------------
pileOf(st, playerId) ==
    LET idx == playerIndex(st, playerId)
    IN IF idx = 0 THEN <<>> ELSE st.players[idx].claimedCards

PileTotal(st) ==
    SumSeq([i \in 1..Len(st.players) |-> Len(st.players[i].claimedCards)])

ZoneTotal(st) == Len(st.deck) + Len(st.activeCards) + PileTotal(st)

RECURSIVE Concat(_)
Concat(seqs) == IF seqs = <<>> THEN <<>> ELSE Head(seqs) \o Concat(Tail(seqs))

\* every card of the deck, the table and the piles
AllCards(st) ==
    st.deck \o st.activeCards
        \o Concat([i \in 1..Len(st.players) |-> st.players[i].claimedCards])

C2_PendingExclusive ==
    [][ /\ Len(pendingSet') <= 1
        /\ (pendingSet # <<>> /\ result'.op = "setPendingSet") =>
              \A p \in Range(Players) :
                  SetPendingSet(p) =>
                      pendingSet' = pendingSet /\ result'.error = "none"
        /\ (pendingSet # <<>> /\ result'.op = "confirmSet") =>
              \A p \in Callers :
                  (ConfirmSet(p) /\ pendingSet[1].playerId # p) =>
                      /\ result'.error = "NO_PENDING_SET"
                      /\ state' = state
                      /\ pendingSet' = pendingSet
    ]_vars

\* setPendingSet has just returned while one player holds the slot and
\* another player has a valid selection
C2_Witness ==
    /\ result.op = "setPendingSet"
    /\ pendingSet # <<>>
    /\ \E p \in Range(Players) :
          ~holds(p) /\ isPlayerSelectionValid(state, p)

\* C3: in a finite-deck game the deck, the table and the piles together
\* hold DECK_SIZE = 63 cards in every reachable state.
C3_FiniteConservation ==
    ~state.settings.infiniteDeck => ZoneTotal(state) = DECK_SIZE

\* a finite-deck game that has ended after a claim
C3_Witness ==
    /\ ~state.settings.infiniteDeck
    /\ PileTotal(state) >= MIN_SET_SIZE
    /\ state.phase = "ended"

\* C4 as stated: in an infinite-deck game the three-zone total stays at its
\* value at game start.
C4_TotalConstant ==
    state.settings.infiniteDeck => ZoneTotal(state) = DECK_SIZE

\* C4: across a successful claim of an infinite-deck game the deck and the
\* table together keep their size, and the piles grow by the number of
\* cards claimed.
C4_DeckAndTableConstant ==
    [][(state.settings.infiniteDeck /\ claims' = claims + 1) =>
          /\ Len(state'.deck) + Len(state'.activeCards)
                = Len(state.deck) + Len(state.activeCards)
          /\ Len(state.deck) + Len(state.activeCards) = DECK_SIZE
          /\ PileTotal(state') = PileTotal(state) + Len(result'.cardIds)
          /\ Len(result'.cardIds) >= MIN_SET_SIZE
    ]_vars

\* an infinite-deck game after a claim: the piles hold cards and the deck
\* and the table are full
C4_Witness ==
    /\ state.settings.infiniteDeck
    /\ claims >= 1
    /\ PileTotal(state) >= MIN_SET_SIZE
    /\ Len(state.deck) + Len(state.activeCards) = DECK_SIZE

\* C5: no card id occurs twice across the deck, the table and the piles.
C5_UniqueIds ==
    Cardinality(Range(AllCards(state))) = Len(AllCards(state))

\* an infinite-deck game in which a re-made card lies in the deck or on the
\* table while a pile holds the card it was made from
C5_Witness ==
    /\ state.settings.infiniteDeck
    /\ \E i \in 1..Len(state.players) :
       \E c \in Range(state.players[i].claimedCards) :
       \E d \in Range(state.deck \o state.activeCards) :
          c # d /\ cardValue(c) = cardValue(d)

\* C6: claimSet gives back the state it was given and 0 points when the
\* player is not in the game, or one of the ids is not on the table, or the
\* values are fewer than 3 or do not XOR to 0.
C6_FailsClosed ==
    [][\A p \in Callers : \A ids \in {result'.cardIds} :
          ( /\ ApplyClaimSet(p, ids)
            /\ \/ playerIndex(state, p) = 0
               \/ \E i \in 1..Len(ids) : ~includes(state.activeCards, ids[i])
               \/ Len(ids) < MIN_SET_SIZE
               \/ XorAll(values(ids)) # 0 )
          => state' = state /\ result'.pointsAwarded = 0
    ]_vars

\* claimSet has given 0 points for three table cards that do not XOR to 0
C6_Witness ==
    /\ result.op = "state.claimSet"
    /\ result.pointsAwarded = 0
    /\ Len(result.cardIds) = MIN_SET_SIZE
    /\ \A i \in 1..Len(result.cardIds) :
          includes(state.activeCards, result.cardIds[i])
    /\ XorAll(values(result.cardIds)) # 0

\* C7: after a successful claimSet by p of ids, p's selection is empty,
\* every other player's selection is the previous one without the claimed
\* ids, in the same order, and the other players' scores and piles are as
\* before.
C7_SelectionsAfterClaim ==
    [][\A p \in Callers : \A ids \in {result'.cardIds} :
          (ApplyClaimSet(p, ids) /\ result'.pointsAwarded > 0) =>
             \A i \in 1..Len(state.players) :
                IF state.players[i].id = p
                THEN state'.players[i].selectedCardIds = <<>>
                ELSE /\ state'.players[i].selectedCardIds =
                          SelectSeq(state.players[i].selectedCardIds,
                                    LAMBDA id : id \notin Range(ids))
                     /\ state'.players[i].score = state.players[i].score
                     /\ state'.players[i].claimedCards =
                          state.players[i].claimedCards
    ]_vars

\* a claim has succeeded and another player is left with two selected cards
\* that are not in table order
C7_Witness ==
    /\ result.op = "state.claimSet"
    /\ result.pointsAwarded > 0
    /\ \E i \in 1..Len(state.players) :
          /\ state.players[i].claimedCards = <<>>
          /\ Len(state.players[i].selectedCardIds) = 2
          /\ Inversions(state, state.players[i].selectedCardIds) = 1

\* C8 as stated: a confirmSet by the holder of the pending set leaves the
\* pending slot empty, whether the claim succeeded or failed.
C8_ConfirmEmptiesSlot ==
    [][result'.op = "confirmSet" =>
          \A p \in Callers :
              (ConfirmSet(p) /\ holds(p)) => pendingSet' = <<>>
    ]_vars

\* C9 as stated: once a leave or a disconnect of the holder of the pending
\* set is processed, the room holds no pending set of that player.
C9_LeaveInvalidatesPending ==
    [][\A p \in Range(Players) :
          ((OnLeave(p) \/ OnDisconnect(p)) /\ holds(p)) =>
              ~(pendingSet' # <<>> /\ pendingSet'[1].playerId = p)
    ]_vars

\* C10: clearSelection by p empties p's selection; the pending slot is
\* emptied when p holds it and is left as it is otherwise; every other
\* player's selection is left as it is.
C10_ClearSelection ==
    [][result'.op = "clearSelection" =>
          \A p \in Callers :
              ClearSelection(p) =>
                 /\ selectionOf(state', p) = <<>>
                 /\ holds(p) => pendingSet' = <<>>
                 /\ ~holds(p) => pendingSet' = pendingSet
                 /\ \A q \in Range(Players) \ {p} :
                       selectionOf(state', q) = selectionOf(state, q)
    ]_vars

\* clearSelection has just returned, a player other than the caller holds
\* the pending set and still has the selection it was made from
C10_Witness ==
    /\ result.op = "clearSelection"
    /\ pendingSet # <<>>
    /\ selectionOf(state, pendingSet[1].playerId) = pendingSet[1].cardIds
    /\ Selecting(state) = 1

\* C11: the phase ended is terminal. Once the room's game state has phase
\* ended, no toggle, pending-set installation, claim, confirm, selection
\* clear or timer tick produces a state whose phase is anything else.
C11_EndedIsTerminal ==
    [][state.phase = "ended" => state'.phase = "ended"]_vars

\* an ended game on which a claim was accepted afterwards (a claim cannot
\* itself end this game: its deck is not empty and the claim resets the turn
\* timer)
C11_Witness ==
    /\ state.phase = "ended"
    /\ state.endReason = "timer_expired"
    /\ result.op = "claimSet"
    /\ result.error = "none"

\* a timer that is configured and has run out
timerOut(t) == t # Null /\ t <= 0

\* the table cards at the positions S XOR to 0: every bit is set on an even
\* number of them
xorsToZero(st, S) ==
    \A b \in 0..(BITS_PER_CARD - 1) :
        Cardinality({i \in S :
            (cardValue(st.activeCards[i]) \div (2 ^ b)) % 2 = 1}) % 2 = 0

\* some subset of at least MIN_SET_SIZE table cards XORs to 0
someSetOnTable(st) ==
    \E S \in SUBSET (1..Len(st.activeCards)) :
        Cardinality(S) >= MIN_SET_SIZE /\ xorsToZero(st, S)

\* C12: checkGameEnd(state) returns timer_expired if either non-null timer
\* is <= 0, before anything else; otherwise, when infiniteDeck is false, it
\* returns deck_empty exactly when the deck is empty and no subset of at
\* least 3 active cards XORs to 0; otherwise, and always when infiniteDeck is
\* true, it returns none.
C12_CheckGameEnd ==
    result.op = "checkGameEnd" =>
        IF timerOut(state.turnTimeRemainingMs)
              \/ timerOut(state.gameTimeRemainingMs)
        THEN result.endReason = "timer_expired"
        ELSE IF ~state.settings.infiniteDeck
                  /\ state.deck = <<>> /\ ~someSetOnTable(state)
        THEN result.endReason = "deck_empty"
        ELSE result.endReason = "null"

\* checkGameEnd answered timer_expired on a finite game whose deck is empty
\* and whose table holds no set
C12_Witness ==
    /\ result.op = "checkGameEnd"
    /\ result.endReason = "timer_expired"
    /\ ~state.settings.infiniteDeck
    /\ state.deck = <<>>
    /\ Len(state.activeCards) = MIN_SET_SIZE
    /\ ~someSetOnTable(state)

\* what is left of the timer t after e more milliseconds
timerAfter(t, e) == IF t = Null THEN Null ELSE IF t - e < 0 THEN 0 ELSE t - e

\* the timer t of a game configured with the duration d has run out, and the
\* end check says so, once `total` milliseconds have passed with total >= d
runsOut(st, t, d, total) ==
    (d # Null /\ total >= d) => (t = 0 /\ checkGameEnd(st) = "timer_expired")

\* C13: updateTimers(state, elapsedMs) replaces each non-null timer t by
\* max(0, t - elapsedMs) and leaves null timers null and every other field
\* unchanged; so a timer is never negative, and once the elapsed time totals
\* at least the configured duration (for the turn timer: with no claim in
\* between to reset it) the timer is 0 and checkGameEnd returns
\* timer_expired.
C13_UpdateTimers ==
    [][result'.op = "updateTimers" =>
        /\ state' =
             [state EXCEPT
                !.turnTimeRemainingMs = timerAfter(@, elapsed' - elapsed),
                !.gameTimeRemainingMs = timerAfter(@, elapsed' - elapsed)]
        /\ state'.turnTimeRemainingMs = Null \/ state'.turnTimeRemainingMs >= 0
        /\ state'.gameTimeRemainingMs = Null \/ state'.gameTimeRemainingMs >= 0
        /\ runsOut(state', state'.gameTimeRemainingMs,
                   state'.settings.gameTimer, elapsed')
        /\ claims' = 0 =>
              runsOut(state', state'.turnTimeRemainingMs,
                      state'.settings.turnTimer, elapsed')
    ]_vars

\* a first updateTimers call with more than the whole turn timer: the turn
\* timer is 0, the game timer that is not configured is still null
C13_Witness ==
    /\ result.op = "updateTimers"
    /\ state.settings.turnTimer # Null
    /\ elapsed > state.settings.turnTimer
    /\ state.turnTimeRemainingMs = 0
    /\ state.gameTimeRemainingMs = Null
    /\ claims = 0

\* C14: every successful claimSet, by any player, sets turnTimeRemainingMs
\* back to the configured turn-timer duration (null when no turn timer is
\* configured) and leaves gameTimeRemainingMs unchanged; a failed claim
\* changes neither timer.
C14_ClaimResetsTurnTimer ==
    [][result'.op = "state.claimSet" =>
        /\ state'.gameTimeRemainingMs = state.gameTimeRemainingMs
        /\ state'.turnTimeRemainingMs =
             IF result'.pointsAwarded > 0
             THEN state.settings.turnTimer
             ELSE state.turnTimeRemainingMs
    ]_vars

\* a claim accepted after both timers had been running for a while
C14_Witness ==
    /\ result.op = "state.claimSet"
    /\ result.pointsAwarded > 0
    /\ elapsed > 0
    /\ state.settings.turnTimer # Null
    /\ state.turnTimeRemainingMs = state.settings.turnTimer
    /\ state.gameTimeRemainingMs # Null
    /\ state.gameTimeRemainingMs < state.settings.gameTimer

\* toggleCardSelection(toggleCardSelection(s, p, c), p, c)
toggledTwice(st, playerId, cardId) ==
    toggleCardSelection(toggleCardSelection(st, playerId, cardId),
                        playerId, cardId)

\* C16 as stated: for every game state s, player p of s and card c on the
\* table, toggling c twice for p gives s back, including the order of p's
\* selectedCardIds, whether or not c was selected in s.
C16_ToggleInvolution ==
    \A p \in Range(Players) : \A c \in Range(state.activeCards) :
        toggledTwice(state, p, c) = state

\* C16, amended: toggling c twice for p gives s back when c is not selected
\* by p in s or is the last id of p's selectedCardIds; when c is selected
\* and not last, the result is s with c moved to the end of p's
\* selectedCardIds.
C16_ToggleTwice ==
    \A p \in Range(Players) : \A c \in Range(state.activeCards) :
        LET idx == playerIndex(state, p)
            sel == state.players[idx].selectedCardIds
        IN toggledTwice(state, p, c) =
             IF ~includes(sel, c) \/ sel[Len(sel)] = c
             THEN state
             ELSE [state EXCEPT !.players[idx].selectedCardIds =
                      SelectSeq(sel, LAMBDA id : id # c) \o <<c>>]

\* toggleCardSelection has added a third card to a player's selection: the
\* first two are selected and not last
C16_Witness ==
    /\ result.op = "toggleCardSelection"
    /\ \E i \in 1..Len(state.players) :
          /\ Len(state.players[i].selectedCardIds) = 3
          /\ state.players[i].selectedCardIds[3] = result.cardIds[1]

\* C15: for a game loop started with startGameLoop, onEnd is invoked at most
\* once; after onEnd has been invoked, or after a tick observes
\* phase != playing, the loop is stopped (its interval is no longer
\* scheduled) and neither onTick nor onEnd is invoked again for that loop.
\* Stated on each run of a loop's callback, for the loop of the room's
\* current game instance and for the loops of the instances it replaced.
C15_LoopStopsOnEnd ==
    [][/\ \A e \in ElapsedChoices :
            /\ (Tick(e) /\ state'.phase # "playing") => ~loopInterval'
            /\ (Tick(e) /\ state.phase # "playing") => result' = result
       /\ \A i \in 1..Len(orphans) : \A e \in ElapsedChoices :
            /\ (OrphanTick(i, e) /\ orphans'[i].state.phase # "playing")
                  => ~orphans'[i].interval
            /\ (OrphanTick(i, e) /\ orphans[i].state.phase # "playing")
                  => result' = result
    ]_vars

\* the player of the room with the given id
memberOf(lob, playerId) ==
    lob[1].players[findIndex(lob[1].players, LAMBDA p : p.id = playerId)]

\* C17: joinLobby is idempotent for members. For the existing lobby and
\* every playerId it already contains, whatever its current size,
\* joinLobby(code, playerId, anyName) returns the existing membership
\* without error and leaves the lobby's player list, names, numbers and
\* colors unchanged.
C17_RejoinIdempotent ==
    [][\A p \in members(lobby) : \A name \in {nameOf(p), OtherName} :
          JoinLobby(RoomCode, p, name) =>
              /\ result'.error = "none"
              /\ result'.player = <<memberOf(lobby, p)>>
              /\ lobby' = lobby
    ]_vars

\* no id is twice in the list of players
distinctIds(players) ==
    \A i, j \in 1..Len(players) : i # j => players[i].id # players[j].id

\* C18: after any sequence of createLobby, joinLobby and leaveLobby calls the
\* lobby has at most maxPlayersPerLobby players and no player id twice; a
\* joinLobby by a non-member returns LOBBY_NOT_FOUND for a code no lobby
\* has and LOBBY_FULL for a lobby at capacity, and leaves the lobbies as
\* they were.
C18_Capacity ==
    [][/\ lobby' # <<>> =>
            /\ Len(lobby'[1].players) <= maxPlayersPerLobby
            /\ distinctIds(lobby'[1].players)
       /\ \A code \in Codes : \A p \in LobbyCallers \ members(lobby) :
            JoinLobby(code, p, nameOf(p)) =>
              /\ lobbiesGet(lobby, code) = <<>> =>
                    result'.error = "LOBBY_NOT_FOUND" /\ lobby' = lobby
              /\ ( /\ lobbiesGet(lobby, code) # <<>>
                   /\ Len(lobby[1].players) >= maxPlayersPerLobby ) =>
                    result'.error = "LOBBY_FULL" /\ lobby' = lobby
    ]_vars

\* joinLobby has answered LOBBY_FULL on a room of maxPlayersPerLobby players
\* that earlier players have left
C18_Witness ==
    /\ result.op = "joinLobby"
    /\ result.error = "LOBBY_FULL"
    /\ lobby # <<>>
    /\ Len(lobby[1].players) = maxPlayersPerLobby
    /\ Cardinality(DOMAIN sockets) > maxPlayersPerLobby

\* C19: the hostId of the lobby is the id of one of its current players.
\* When the host leaves a lobby that stays non-empty, the player now first
\* in the list becomes host and is reported as newHostId; when a non-host
\* leaves, hostId is unchanged and newHostId is absent; when the last
\* player leaves, the lobby is deleted.
C19_HostIsMember ==
    [][/\ lobby' # <<>> => lobby'[1].hostId \in members(lobby')
       /\ \A p \in members(lobby) :
            LeaveLobby(RoomCode, p) =>
              IF Len(lobby[1].players) = 1
              THEN lobby' = <<>> /\ result'.lobbyDeleted
              ELSE /\ lobby' # <<>>
                   /\ ~result'.lobbyDeleted
                   /\ IF p = lobby[1].hostId
                      THEN /\ lobby'[1].hostId = lobby'[1].players[1].id
                           /\ result'.newHostId = lobby'[1].hostId
                      ELSE /\ lobby'[1].hostId = lobby[1].hostId
                           /\ result'.newHostId = "undefined"
    ]_vars

\* the host has left a room of several players and another player is host
C19_Witness ==
    /\ result.op = "leaveLobby"
    /\ result.newHostId # "undefined"
    /\ lobby # <<>>
    /\ Len(lobby[1].players) >= 2
    /\ lobby[1].hostId = result.newHostId

\* C20: after any sequence of joinLobby and leaveLobby calls the players of
\* the lobby are numbered 1..n in list order and the i-th player's color is
\* PLAYER_COLORS[(i-1) mod 8]; a leave therefore renumbers and recolors the
\* players who were behind the leaver.
C20_Numbering ==
    lobby # <<>> =>
        \A i \in 1..Len(lobby[1].players) :
            /\ lobby[1].players[i].playerNumber = i
            /\ lobby[1].players[i].color = (i - 1) % 8

\* after a leave, the third player to enter the room is the second of three
C20_Witness ==
    /\ result.op = "leaveLobby"
    /\ result.error = "none"
    /\ lobby # <<>>
    /\ Len(lobby[1].players) = 3
    /\ lobby[1].players[2].id = "p3"


\* ------------------------------------------------------------------------
\* C21: on an existing lobby, updateSettings(code, playerId, partial) is
\* rejected with SETTINGS_LOCKED, the lobby staying as it was, exactly when
\* settingsUnlocked is false and playerId is not the host; otherwise every
\* field of the settings named by partial takes partial's value, every other
\* field keeps its value, and nothing else in the lobby changes
\* ------------------------------------------------------------------------
C21_UpdateSettings ==
    [][\A code \in Codes : \A p \in LobbyCallers :
        \A partial \in SettingsPartials :
         (/\ result'.op = "updateSettings"
          /\ lobbiesGet(lobby, code) # <<>>
          /\ UpdateSettings(code, p, partial))
         => IF ~lobby[1].settingsUnlocked /\ p # lobby[1].hostId
            THEN /\ result'.error = "SETTINGS_LOCKED"
                 /\ lobby' = lobby
            ELSE /\ result'.error = "none"
                 /\ Len(lobby') = 1
                 /\ DOMAIN lobby'[1] = DOMAIN lobby[1]
                 /\ DOMAIN lobby'[1].settings = DOMAIN lobby[1].settings
                 /\ \A f \in DOMAIN lobby[1].settings :
                      lobby'[1].settings[f] =
                          IF f \in DOMAIN partial THEN partial[f]
                          ELSE lobby[1].settings[f]
                 /\ \A k \in DOMAIN lobby[1] \ {"settings"} :
                      lobby'[1][k] = lobby[1][k]]_vars

\* a non-host was rejected on a locked lobby whose settings earlier merges
\* have changed, one field at a time
C21_Witness ==
    /\ result.op = "updateSettings"
    /\ result.error = "SETTINGS_LOCKED"
    /\ lobby # <<>>
    /\ lobby[1].settings.infiniteDeck
    /\ lobby[1].settings.scoringMode = "sets"

\* ------------------------------------------------------------------------
\* C22: on an existing lobby, toggleSettingsLock and canStartGame succeed
\* exactly when the requester is the current host, whatever the ready flags
\* are, and answer NOT_HOST to anybody else, changing nothing; a successful
\* toggleSettingsLock flips settingsUnlocked only; canStartGame never
\* changes the lobby
\* ------------------------------------------------------------------------
C22_HostOnly ==
    [][\A code \in Codes : \A p \in LobbyCallers :
        /\ (/\ result'.op = "toggleSettingsLock"
            /\ lobbiesGet(lobby, code) # <<>>
            /\ ToggleSettingsLock(code, p))
           => IF p = lobby[1].hostId
              THEN /\ result'.error = "none"
                   /\ lobby' = <<[lobby[1] EXCEPT !.settingsUnlocked =
                                     ~lobby[1].settingsUnlocked]>>
              ELSE /\ result'.error = "NOT_HOST"
                   /\ lobby' = lobby
        /\ (result'.op = "canStartGame" /\ CanStartGame(code, p))
           => /\ lobby' = lobby
              /\ lobbiesGet(lobby, code) # <<>>
                 => result'.error = IF p = lobby[1].hostId THEN "none"
                                    ELSE "NOT_HOST"]_vars

\* the start check succeeded for a host who got the role by a transfer,
\* while nobody in the room is ready
C22_Witness ==
    /\ result.op = "canStartGame"
    /\ result.error = "none"
    /\ lobby # <<>>
    /\ lobby[1].hostId = "p2"
    /\ \A i \in DOMAIN lobby[1].players : ~lobby[1].players[i].isReady

\* ------------------------------------------------------------------------
\* C24: once startGame has created the room's game, no updateSettings,
\* toggleSettingsLock, joinLobby or leaveLobby on the lobby changes the
\* settings or the players held in the game (every step of SpecSettings
\* stores the name of its method in result.op)
\* ------------------------------------------------------------------------
C24_SettingsFrozen ==
    [][(/\ state # <<>>
        /\ result'.op \in {"updateSettings", "toggleSettingsLock",
                           "joinLobby", "leaveLobby"})
       => /\ state' # <<>>
          /\ state'.settings = state.settings
          /\ state'.players = state.players]_vars

\* a game is running while the lobby's settings and member list have both
\* moved away from the ones the game was started with
C24_Witness ==
    /\ state # <<>>
    /\ lobby # <<>>
    /\ state.phase = "playing"
    /\ lobby[1].settings # state.settings
    /\ Len(lobby[1].players) # Len(state.players)
    /\ result.op = "updateSettings"
    /\ result.error = "none"

\* ------------------------------------------------------------------------
\* C23: after any number n of addChatMessage calls on a lobby, chatMessages
\* holds min(n, 100) messages, and they are the last ones added, in the
\* order in which they were added (message i of the list is the one added
\* by call n - length + i)
\* ------------------------------------------------------------------------
C23_ChatBounded ==
    lobby # <<>> =>
        LET chat == lobby[1].chatMessages
        IN /\ Len(chat) <= 100
           /\ Len(chat) = IF chatSent < 100 THEN chatSent ELSE 100
           /\ \A i \in 1..Len(chat) :
                chat[i] = ChatMessage(chatSent - Len(chat) + i, "p1", "hello")

\* more than 100 messages were added: the first ones are gone
C23_Witness ==
    /\ result.op = "addChatMessage"
    /\ chatSent > chatMessagesLimit + 1
    /\ lobby # <<>>
    /\ Len(lobby[1].chatMessages) = chatMessagesLimit
    /\ lobby[1].chatMessages[1].id = chatSent - chatMessagesLimit + 1

\* ------------------------------------------------------------------------
\* C25: a lobby is removed from the registry when its last player leaves
\* and when its game ends: once the room's game has phase ended, there is
\* no lobby for the room
\* ------------------------------------------------------------------------
C25_LobbyGoneAfterEnd ==
    (state # <<>> /\ state.phase = "ended") => lobby = <<>>

\* every bit is set in an even number of the values, i.e. their XOR is 0
evenBits(L) ==
    \A b \in 0..(BITS_PER_CARD - 1) :
        Cardinality({i \in 1..Len(L) : (L[i] \div (2 ^ b)) % 2 = 1}) % 2 = 0

\* rearrangements of L: every permutation of a short list, the rotations and
\* the reversal of a longer one
rearranged(L) ==
    IF Len(L) <= MaxListLen
    THEN {[i \in 1..Len(L) |-> L[p[i]]] : p \in Permutations(1..Len(L))}
    ELSE {[i \in 1..Len(L) |-> L[((i + k) % Len(L)) + 1]] : k \in 1..Len(L)}
         \cup {Reverse(L)}

\* ------------------------------------------------------------------------
\* C26: for every list L of card values, isValidSet(L) is true exactly when
\* L has at least 3 values and their XOR is 0, and isValidSet gives the same
\* answer for every rearrangement of L; values may be repeated
\* ------------------------------------------------------------------------
C26_ValidityLaw ==
    result.op = "isValidSet" =>
        /\ result.value = (Len(state) >= 3 /\ evenBits(state))
        /\ \A M \in rearranged(state) : isValidSet(M) = result.value

\* a valid list in which a value is repeated and which is not in order
C26_Witness ==
    /\ result.op = "isValidSet"
    /\ result.value
    /\ \E i, j \in 1..Len(state) : i < j /\ state[i] = state[j]
    /\ \E i, j \in 1..Len(state) : i < j /\ state[i] > state[j]

RECURSIVE subsetXors(_)
\* the pairs <<x, c>> such that some c indices of L, or more than 3 when c
\* is 3, hold values whose XOR is x
subsetXors(L) ==
    IF L = <<>> THEN {<<0, 0>>}
    ELSE LET before == subsetXors(SubSeq(L, 1, Len(L) - 1))
             v == L[Len(L)]
         IN before \cup
            {<<Xor(xc[1], v), IF xc[2] < MIN_SET_SIZE THEN xc[2] + 1 ELSE xc[2]>> :
                xc \in before}

\* some subset of at least 3 indices of L XORs to 0
someSubsetXorsToZero(L) == <<0, MIN_SET_SIZE>> \in subsetXors(L)

\* 7 distinct nonzero 6-bit values
sevenDistinct(L) ==
    /\ Len(L) = ACTIVE_CARD_COUNT
    /\ \A i \in 1..Len(L) : L[i] \in 1..DECK_SIZE
    /\ \A i, j \in 1..Len(L) : i # j => L[i] # L[j]

\* ------------------------------------------------------------------------
\* C27: hasValidSet(v) is true exactly when some subset of at least 3
\* indices of v XORs to 0; for 7 distinct nonzero 6-bit values hasValidSet
\* is true and findAllSets is not empty
\* ------------------------------------------------------------------------
C27_HasValidSet ==
    /\ result.op = "hasValidSet" =>
        /\ result.value = someSubsetXorsToZero(state)
        /\ sevenDistinct(state) => result.value
    /\ result.op = "findAllSets" =>
        /\ sevenDistinct(state) => result.value # <<>>

\* ------------------------------------------------------------------------
\* C28: a toggleCard, claimSet, confirmSet or clearSelection call that
\* returns an error leaves the game state and the pending slot as they
\* were, and a toggleCard of a card that is not on the table changes no
\* player's selection: the ids that a toggleCard adds to or removes from a
\* selection are ids of table cards (a step that leaves result alone
\* changes neither the state nor the slot)
\* ------------------------------------------------------------------------
C28_ErrorsChangeNothing ==
    [][/\ (/\ result'.op \in {"toggleCard", "claimSet", "confirmSet",
                              "clearSelection"}
           /\ result'.error # "none")
          => (state' = state /\ pendingSet' = pendingSet)
       /\ (result'.op = "toggleCard" /\ state' # state)
          => \A i \in 1..Len(state.players) :
               \A id \in (Range(state'.players[i].selectedCardIds)
                               \ Range(state.players[i].selectedCardIds))
                          \cup (Range(state.players[i].selectedCardIds)
                               \ Range(state'.players[i].selectedCardIds)) :
                   includes(state.activeCards, id)]_vars

\* a toggle by an unknown player was rejected while a player has cards
\* selected and holds the pending slot
C28_Witness ==
    /\ result.op = "toggleCard"
    /\ result.error = "INVALID_REQUEST"
    /\ pendingSet # <<>>
    /\ \E i \in 1..Len(state.players) : state.players[i].selectedCardIds # <<>>

\* the smaller of two numbers
Min(a, b) == IF a < b THEN a ELSE b

\* ------------------------------------------------------------------------
\* C29: in every state of a game activeCards has at most 7 cards, and
\* exactly 7 unless the deck is empty; a successful claim of a finite-deck
\* game leaves the unclaimed table cards in place and adds cards popped
\* from the end of the deck until the table has 7 cards or the deck is empty
\* ------------------------------------------------------------------------
C29_TableRefilled ==
    /\ [](/\ Len(state.activeCards) <= ACTIVE_CARD_COUNT
          /\ Len(state.deck) > 0 => Len(state.activeCards) = ACTIVE_CARD_COUNT)
    /\ [][(result'.op = "claimSet" /\ result'.error = "none")
          => LET kept == SelectSeq(state.activeCards,
                            LAMBDA c : ~includes(result'.cardIds, c))
                 n == Min(ACTIVE_CARD_COUNT - Len(kept), Len(state.deck))
             IN /\ state'.deck = SubSeq(state.deck, 1, Len(state.deck) - n)
                /\ state'.activeCards =
                     kept \o [i \in 1..n |-> state.deck[Len(state.deck) + 1 - i]]
                /\ Len(state'.activeCards) =
                     Min(ACTIVE_CARD_COUNT, Len(kept) + Len(state.deck))]_vars

\* a claim has emptied the deck before the table was full again, and the
\* game goes on
C29_Witness ==
    /\ result.op = "claimSet"
    /\ result.error = "none"
    /\ state.deck = <<>>
    /\ Len(state.activeCards) \in 1..(ACTIVE_CARD_COUNT - 1)
    /\ state.phase = "playing"

\* ------------------------------------------------------------------------
\* C30: a successful claimSet of k cards awards k points when scoringMode
\* is cards or absent and 1 point when it is sets; the claimant's score
\* grows by the points awarded and the k claimed cards are appended to the
\* claimant's pile, in the order of the claim; no other player's score or
\* pile changes
\* ------------------------------------------------------------------------
C30_Scoring ==
    [][(result'.op = "claimSet" /\ result'.error = "none")
       => LET k == Len(result'.cardIds)
              points == result'.pointsAwarded
          IN /\ points = IF state.settings.scoringMode = "sets" THEN 1 ELSE k
             /\ k >= MIN_SET_SIZE
             /\ \A p \in Callers :
                  LateClaimSet(p, result'.cardIds)
                  => \A i \in 1..Len(state.players) :
                       IF state.players[i].id = p
                       THEN /\ state'.players[i].score =
                                 state.players[i].score + points
                            /\ state'.players[i].claimedCards =
                                 state.players[i].claimedCards \o result'.cardIds
                       ELSE /\ state'.players[i].score = state.players[i].score
                            /\ state'.players[i].claimedCards =
                                 state.players[i].claimedCards]_vars

\* in sets mode the second player has claimed more than 3 cards for 1 point
C30_Witness ==
    /\ result.op = "claimSet"
    /\ result.error = "none"
    /\ state.settings.scoringMode = "sets"
    /\ Len(result.cardIds) > MIN_SET_SIZE
    /\ result.pointsAwarded = 1
    /\ state.players[2].score >= 1
    /\ Len(state.players[2].claimedCards) >= Len(result.cardIds)

\* ------------------------------------------------------------------------
\* C31: a game in phase playing is never stuck: in every state with phase
\* playing the table holds a valid set, and a successful claim that leaves
\* an empty deck and no valid set on the table ends the game with
\* deck_empty in the same step
\* ------------------------------------------------------------------------
C31_NeverStuck ==
    /\ [](state.phase = "playing" => someSetOnTable(state))
    /\ [][(/\ result'.op = "claimSet"
           /\ result'.error = "none"
           /\ state'.deck = <<>>
           /\ ~someSetOnTable(state'))
          => /\ state'.phase = "ended"
             /\ state'.endReason = "deck_empty"]_vars

\* a claim of the last table cards has left an empty deck and no valid set
\* (the cards of a full deck XOR to 0, so the cards that remain after valid
\* claims do too: the last claim takes the whole table), and the game has
\* ended
C31_Witness ==
    /\ result.op = "claimSet"
    /\ result.error = "none"
    /\ state.deck = <<>>
    /\ Len(state.activeCards) < MIN_SET_SIZE
    /\ ~someSetOnTable(state)
    /\ state.phase = "ended"
    /\ state.endReason = "deck_empty"

\* what the players have scored and claimed
scoresAndPiles(st) ==
    [i \in 1..Len(st.players) |->
        <<st.players[i].score, st.players[i].claimedCards>>]

\* ------------------------------------------------------------------------
\* C32: once the game has phase ended, no game:toggleCard, game:confirmSet
\* or game:clearSelection event changes a player's score or claimed pile,
\* the active cards, the deck or the timers
\* ------------------------------------------------------------------------
C32_EndedIsFrozen ==
    [][(/\ state.phase = "ended"
        /\ result'.op \in {"game:toggleCard", "game:setClaimed",
                           "game:setPending", "confirmSet", "clearSelection"})
       => /\ scoresAndPiles(state') = scoresAndPiles(state)
          /\ state'.activeCards = state.activeCards
          /\ state'.deck = state.deck
          /\ state'.turnTimeRemainingMs = state.turnTimeRemainingMs
          /\ state'.gameTimeRemainingMs = state.gameTimeRemainingMs]_vars

\* ------------------------------------------------------------------------
\* C33: for each game, game:ended is broadcast to the room at most once,
\* whichever of the timer loop or a claim ends the game and whatever events
\* arrive afterwards
\* ------------------------------------------------------------------------
C33_EndedOnce == endedSent <= 1

\* ------------------------------------------------------------------------
\* C34: whenever the room holds a pending set, the holder's current
\* selection is exactly the pending card ids and is a valid set on the
\* table, so confirmSet claims the cards the holder has selected
\* ------------------------------------------------------------------------
C34_PendingIsSelection ==
    pendingSet # <<>>
    => /\ selectionOf(state, pendingSet[1].playerId) = pendingSet[1].cardIds
       /\ \A i \in 1..Len(pendingSet[1].cardIds) :
             includes(state.activeCards, pendingSet[1].cardIds[i])
       /\ isValidSet(values(pendingSet[1].cardIds))

\* ------------------------------------------------------------------------
\* C35: in click mode a game:setPending message naming player p is
\* broadcast only when p has been installed as the holder of the pending
\* slot; a valid selection formed by another player while the slot is held
\* produces no game:setPending broadcast naming that player
\* ------------------------------------------------------------------------
C35_PendingBroadcast ==
    [][(/\ result'.op = "game:setPending"
        /\ \E p \in Range(Players) : \E c \in ToggleInputs(state) :
              OnToggleCard(p, c))
       => /\ pendingSet' # <<>>
          /\ pendingSet'[1].playerId = result'.playerId
          /\ pendingSet'[1].cardIds = result'.cardIds]_vars

\* ------------------------------------------------------------------------
\* C36: at most one timer loop is running per room and it acts on the
\* room's current game instance: after a lobby:startGame on a room that
\* already has a game, the earlier game's loop does not keep running, and
\* the new game's loop is not stopped by the earlier one
\* ------------------------------------------------------------------------
C36_OneLoop ==
    /\ [](\A i \in 1..Len(orphans) : ~orphans[i].interval)
    /\ [][\A i \in 1..Len(orphans) : \A e \in ElapsedChoices :
            OrphanTick(i, e) => loopInterval' = loopInterval]_vars

\* ------------------------------------------------------------------------
\* C37: no game instance outlives its room: once the lobby has been deleted
\* because its last player left or disconnected, the timer loop of the
\* room's game is stopped and no tick for that room runs afterwards
\* ------------------------------------------------------------------------
C37_GameGoneWithRoom ==
    /\ [](lobby = <<>> => ~loopInterval)
    /\ [][lobby = <<>> => \A e \in ElapsedChoices : ~Tick(e)]_vars

\* ------------------------------------------------------------------------
\* C38: in every state of a game driven through toggleCard, claimSet,
\* confirmSet and clearSelection, each player's selectedCardIds holds no id
\* twice and only ids of cards that are on the table
\* ------------------------------------------------------------------------
C38_SelectionsOnTable ==
    \A i \in 1..Len(state.players) :
        LET sel == state.players[i].selectedCardIds
        IN /\ \A j \in 1..Len(sel) : \A k \in 1..Len(sel) :
                 sel[j] = sel[k] => j = k
           /\ \A j \in 1..Len(sel) :
                 \E t \in 1..Len(state.activeCards) : state.activeCards[t] = sel[j]

\* after a claim has taken cards from the table and new ones were dealt, a
\* player has selected two cards of the new table
C38_Witness ==
    /\ result.op = "toggleCard"
    /\ result.error = "none"
    /\ claims > 0
    /\ \E i \in 1..Len(state.players) :
          /\ Len(state.players[i].selectedCardIds) >= 2
          /\ state.players[i].claimedCards = <<>>
    /\ \E q \in 1..Len(state.players) : state.players[q].claimedCards # <<>>

\* ------------------------------------------------------------------------
\* C39: in immediate mode, after each player event on a playing game no
\* player's selection is a valid set: a selection is claimed within the
\* event that made it valid, also when it became valid because another
\* player's claim removed cards from it
\* ------------------------------------------------------------------------
C39_NoValidSelection ==
    (state.phase = "playing" /\ state.settings.setFoundBehavior = "immediate")
    => \A i \in 1..Len(state.players) :
          ~isValidSet(values(state.players[i].selectedCardIds))

\* ------------------------------------------------------------------------
\* C40: in click mode cards leave the table only through a confirmSet by
\* the holder of the pending set: every step that changes the table, a
\* score or a pile is a successful confirmSet that claims exactly the
\* pending card ids for the holder, and a toggle that forms a valid
\* selection claims nothing
\* ------------------------------------------------------------------------
C40_ClickClaims ==
    [][(/\ state.settings.setFoundBehavior = "click"
        /\ \/ state'.activeCards # state.activeCards
           \/ scoresAndPiles(state') # scoresAndPiles(state))
       => /\ result'.op = "confirmSet"
          /\ result'.error = "none"
          /\ pendingSet # <<>>
          /\ result'.cardIds = pendingSet[1].cardIds
          /\ pileOf(state', pendingSet[1].playerId) =
               pileOf(state, pendingSet[1].playerId) \o pendingSet[1].cardIds
          /\ \A q \in Range(Players) \ {pendingSet[1].playerId} :
               pileOf(state', q) = pileOf(state, q)
          /\ \A i \in 1..Len(state.activeCards) :
               includes(state'.activeCards, state.activeCards[i])
                  <=> ~includes(pendingSet[1].cardIds, state.activeCards[i])
          /\ pendingSet' = <<>>]_vars

\* the second player held the pending set and has confirmed it: its cards
\* are in that player's pile and the slot is free
C40_Witness ==
    /\ state.settings.setFoundBehavior = "click"
    /\ result.op = "confirmSet"
    /\ result.error = "none"
    /\ pendingSet = <<>>
    /\ pileOf(state, Players[2]) = result.cardIds
    /\ Len(result.cardIds) >= MIN_SET_SIZE
====
